---- MODULE Spec2Model ----
(***************************************************************************)
(* The weather store of vue-weather (src/src/stores/weatherStore.ts, the   *)
(* first store definition, lines 1-505): cache, throttle, retry wrapper,   *)
(* request aggregation, error classification, unit toggle, favourites and  *)
(* the periodic cache clean-up timer.                                      *)
(*                                                                         *)
(* Time is counted in abstract units.  The durations of the source are     *)
(* scaled down, keeping their order (retry delay = throttle window <       *)
(* clean-up period < cache duration), and the cache capacity is scaled     *)
(* down as well; none of the properties below mentions a concrete value.   *)
(* lastFetchTimestamp, which the store writes and nothing reads, is left   *)
(* out.                                                                    *)
(***************************************************************************)
EXTENDS Integers, Sequences, FiniteSets, TLC

\* MAX_CACHE_SIZE: weatherStore.ts:16 (50 in the source, scaled).
MAX_CACHE_SIZE == 2
\* CACHE_DURATION: weatherStore.ts:17 (10 minutes in the source, scaled).
CACHE_DURATION == 3
\* MAX_RETRIES: weatherStore.ts:20.
MAX_RETRIES == 3
\* RETRY_DELAY: weatherStore.ts:21 (1000 ms in the source, scaled).
RETRY_DELAY == 1
\* The throttle window of throttledFetchWeatherData: weatherStore.ts:355
\* (1000 ms in the source, scaled).
THROTTLE_MS == 1
\* The period of the clean-up timer: weatherStore.ts:126 (5 minutes, scaled).
CLEANUP_INTERVAL == 2
\* The clock stops at MaxTime.
MaxTime == 6
\* At most MaxInFlight calls of fetchWeatherData wait on the network at once.
MaxInFlight == 2
\* The upstream API answers with a server error at most MaxServerErrors times
\* in a run of the store.
MaxServerErrors == 1
\* A run of the whole store calls at most MaxOps operations; a run of the
\* queries and the cache, of the unit toggle, of the favourites, at most
\* MaxCacheOps, MaxUnitOps, MaxFavoriteOps.
MaxOps == 2
MaxCacheOps == 3
MaxUnitOps == 2
MaxFavoriteOps == 3
MaxFetchOps == 2
MaxFrameOps == 3
MaxOverlapOps == 2
MaxEvictionOps == 1
FORECAST_DAYS == 2
HOURLY_ITEMS == 2
DAY == 2
MaxItems == 5
MaxLookups == 4
NoController == 0
MaxKeyOps == 2
MaxHeld == 4
MaxAged == 3
MaxExpiryOps == 3
MaxTimerOps == 4
MaxLoadOps == 2
MaxPreferenceOps == 3
MaxLiveOps == 1
\* fetchWithRetry is exercised alone with retries in 0..MaxRetriesArg.
MaxRetriesArg == 4
\* cacheCleanupInterval: null (weatherStore.ts:73); timer ids are positive.
NoInterval == 0

NULL == [null |-> TRUE]

(***************************************************************************)
(* The world outside: places, queries, HTTP outcomes, thrown values.       *)
(***************************************************************************)
Places == {"Paris", "Oslo"}
LatOf(p) == IF p = "Paris" THEN 48 ELSE 59
LonOf(p) == IF p = "Paris" THEN 2 ELSE 10

\* WeatherParams (weatherStore.ts:23-27): {q} or {lat, lon}.
TextParams == {[q |-> p] : p \in Places}
CoordParams == {[lat |-> LatOf(p), lon |-> LonOf(p)] : p \in Places}
QueryParams == TextParams \cup CoordParams

\* The place a request for params is about.
PlaceOf(params) ==
    IF "q" \in DOMAIN params
    THEN params.q
    ELSE CHOOSE p \in Places : LatOf(p) = params.lat /\ LonOf(p) = params.lon

\* What a call of fn settles with: a response, or a thrown value.  A thrown
\* value is an AxiosError (isAxiosError), with or without a response, or
\* any other value, an Error (isError, with its message) or not.
Outcome(kind, isAxiosError, hasResponse, status, dataMessage, isError, message) ==
    [kind |-> kind, isAxiosError |-> isAxiosError, hasResponse |-> hasResponse,
     status |-> status, dataMessage |-> dataMessage, isError |-> isError,
     message |-> message]
NoOutcome == Outcome("none", FALSE, FALSE, 0, "", FALSE, "")
OkResponse == Outcome("ok", FALSE, TRUE, 200, "", FALSE, "")
HttpError(status, dataMessage) ==
    Outcome("fail", TRUE, TRUE, status, dataMessage, TRUE, "Request failed")
NetworkError == Outcome("fail", TRUE, FALSE, 0, "", TRUE, "Network Error")
\* localStorage.setItem throws a DOMException (quota, storage disabled).
StorageException ==
    Outcome("fail", FALSE, FALSE, 0, "", TRUE, "QuotaExceededError")

\* The outcomes the upstream API produces in the store's runs.
\* A 200 answer of /forecast whose body has no list, and the TypeError that
\* forecast.data.list.slice(0, 8) throws on it.
ForecastWithoutList == Outcome("ok", FALSE, TRUE, 200, "no list", FALSE, "")
TypeErrorNoList ==
    Outcome("fail", FALSE, FALSE, 0, "", TRUE,
            "Cannot read properties of undefined (reading 'slice')")

ApiOutcomes ==
    {OkResponse, NetworkError, HttpError(404, "city not found"),
     HttpError(500, "")}

\* Every shape of value handleError may be given.
HttpStatuses == {400, 401, 403, 404, 429, 500, 502, 503}
Messages == {"", "boom", "Request failed"}
ThrownValues ==
    {Outcome("fail", TRUE, TRUE, s, d, TRUE, m) :
        s \in HttpStatuses, d \in {"", "city not found"}, m \in Messages}
    \cup {Outcome("fail", TRUE, FALSE, 0, "", TRUE, m) : m \in Messages}
    \cup {Outcome("fail", FALSE, FALSE, 0, "", TRUE, m) : m \in Messages}
    \cup {Outcome("fail", FALSE, FALSE, 0, "", FALSE, m) : m \in Messages}

Units == {"metric", "imperial"}
OtherUnit(u) == IF u = "metric" THEN "imperial" ELSE "metric"

(***************************************************************************)
(* localStorage: the two keys of the store.  A stored value is absent      *)
(* (kind "null"), a string that JSON.parse throws on (kind "corrupt"),     *)
(* the JSON text of a value that is no array (kind "value"), or the JSON   *)
(* text of an array of items (kind "array").  A JSON value carries its     *)
(* typeof: a string [str], a number [num], a missing property [undefined]; *)
(* an item of the array is an object with the properties name, lat and     *)
(* lon, the value null, or a string.                                       *)
(***************************************************************************)
Favorite(p) == [name |-> p, lat |-> LatOf(p), lon |-> LonOf(p)]
JString(v) == [str |-> v]
JNumber(v) == [num |-> v]
JUndefined == [undefined |-> TRUE]
JObject(name, lat, lon) ==
    [typeof |-> "object", name |-> name, lat |-> lat, lon |-> lon]
JNullItem == [typeof |-> "object", isNull |-> TRUE]
JStringItem == [typeof |-> "string"]
\* A favourite as JSON.stringify writes it, and as JSON.parse reads it back.
ToJSON(f) == JObject(JString(f.name), JNumber(f.lat), JNumber(f.lon))
FromJSON(item) ==
    [name |-> item.name.str, lat |-> item.lat.num, lon |-> item.lon.num]

StoredNull == [kind |-> "null", items |-> <<>>]
StoredCorrupt == [kind |-> "corrupt", items |-> <<>>]
StoredNotArray == [kind |-> "value", items |-> <<>>]
\* JSON.stringify(this.favorites): weatherStore.ts:474.
JSONstringify(favs) ==
    [kind |-> "array", items |-> [i \in 1..Len(favs) |-> ToJSON(favs[i])]]
StoredFavoritesValues ==
    {StoredNull, StoredCorrupt}
    \cup {JSONstringify(<<>>)}
    \cup {JSONstringify(<<Favorite(p)>>) : p \in Places}
    \cup {JSONstringify(<<Favorite(p), Favorite(r)>>) : p \in Places, r \in Places}
StoredUnitsValues == {"<null>", "metric", "imperial", "celsius"}

\* Stored arrays with an item that is no favourite: a missing lon, a name
\* that is a number, a lat that is a string, null, a string; alone, and
\* after or before a well-formed item.
MalformedItems ==
    {JObject(JString("Oslo"), JNumber(59), JUndefined),
     JObject(JNumber(7), JNumber(59), JNumber(10)),
     JObject(JString("Oslo"), JString("59"), JNumber(10)),
     JNullItem, JStringItem}
MalformedFavoritesValues ==
    {StoredNotArray}
    \cup {[kind |-> "array", items |-> <<m>>] : m \in MalformedItems}
    \cup {[kind |-> "array", items |-> <<ToJSON(Favorite("Paris")), m>>] :
              m \in MalformedItems}
    \cup {[kind |-> "array", items |-> <<m, ToJSON(Favorite("Paris"))>>] :
              m \in MalformedItems}

\* The test of parsed.every: typeof item === 'object' and the typeof of its
\* three properties (on null the property access throws, which the catch
\* block turns into the same result as a failed test).
IsFavoriteItem(item) ==
    /\ item.typeof = "object"
    /\ {"name", "lat", "lon"} \subseteq DOMAIN item
    /\ "str" \in DOMAIN item.name
    /\ "num" \in DOMAIN item.lat
    /\ "num" \in DOMAIN item.lon

loadStoredFavorites_ValidItemsKept(stored) ==
    IF stored.kind = "array"
    THEN LET kept == SelectSeq(stored.items, IsFavoriteItem)
         IN  [i \in 1..Len(kept) |-> FromJSON(kept[i])]
    ELSE <<>>

\* loadStoredFavorites: the parsed array when every item has the shape
\* {name: string, lat: number, lon: number}, else [].
loadStoredFavorites(stored) ==
    IF stored.kind = "array"
       /\ \A i \in 1..Len(stored.items) : IsFavoriteItem(stored.items[i])
    THEN [i \in 1..Len(stored.items) |-> FromJSON(stored.items[i])]
    ELSE <<>>

loadStoredUnits(stored) ==
    IF stored = "metric" \/ stored = "imperial" THEN stored ELSE "metric"

(***************************************************************************)
(* handleError                                                             *)
(***************************************************************************)
GenericMessage == "An unexpected error occurred."

handleError(e) ==
    IF e.isAxiosError
    THEN IF ~e.hasResponse
         THEN [type |-> "NETWORK",
               message |-> "Network error. Please check your connection."]
         ELSE IF e.status = 429
         THEN [type |-> "API_LIMIT",
               message |-> "Too many requests. Please try again later."]
         ELSE IF e.status = 404
         THEN [type |-> "LOCATION",
               message |-> "Location not found. Please check the city name."]
         ELSE [type |-> "UNKNOWN",
               message |-> IF e.dataMessage # "" THEN e.dataMessage
                           ELSE GenericMessage]
    ELSE [type |-> "UNKNOWN",
          message |-> IF e.isError THEN e.message ELSE GenericMessage]

(***************************************************************************)
(* The cache: a Map, kept as the sequence of its entries in insertion      *)
(* order.  An entry is [key, data, timestamp, lastAccessed, compressed].   *)
(***************************************************************************)
\* compress(JSON.stringify(processedData)) of lz-string: the text of the
\* snapshot as written, in compressed form.
compress(data) == [lz |-> [json |-> data]]

Str(v) == ToString(v)

getCacheKey(params) ==
    IF "q" \in DOMAIN params /\ params.q # ""
    THEN params.q
    ELSE (IF "lat" \in DOMAIN params THEN Str(params.lat) ELSE "undefined")
         \o "," \o
         (IF "lon" \in DOMAIN params THEN Str(params.lon) ELSE "undefined")

\* cache.get(key): the index of the entry of that key, 0 when there is none.
CacheIndex(c, key) ==
    IF \E i \in 1..Len(c) : c[i].key = key
    THEN CHOOSE i \in 1..Len(c) : c[i].key = key
    ELSE 0

\* cache.set(key, entry): an existing key keeps its place in the Map.
CacheSet(c, entry) ==
    LET i == CacheIndex(c, entry.key)
    IN  IF i = 0 THEN Append(c, entry) ELSE [c EXCEPT ![i] = entry]

isCacheValid_ByAccess(cacheEntry, t) == t - cacheEntry.lastAccessed < CACHE_DURATION

isCacheValid(cacheEntry, t) == t - cacheEntry.timestamp < CACHE_DURATION

updateCacheAccessTime_Renewed(c, key, t) ==
    LET i == CacheIndex(c, key)
    IN  IF i = 0 THEN c
        ELSE [c EXCEPT ![i].lastAccessed = t, ![i].timestamp = t]

updateCacheAccessTime_Elapsed(c, key, t) ==
    LET i == CacheIndex(c, key)
    IN  IF i = 0 THEN c ELSE [c EXCEPT ![i].lastAccessed = t - @]

updateCacheAccessTime(c, key, t) ==
    LET i == CacheIndex(c, key)
    IN  IF i = 0 THEN c ELSE [c EXCEPT ![i].lastAccessed = t]

\* The entries of c that are not at the positions in drop, in order.
RECURSIVE Without(_, _)
Without(c, drop) ==
    IF c = <<>> THEN <<>>
    ELSE LET rest == Without(Tail(c), {i - 1 : i \in drop \ {1}})
         IN  IF 1 \in drop THEN rest ELSE <<Head(c)>> \o rest

\* Array.prototype.sort with a.lastAccessed - b.lastAccessed is stable: the
\* rank of position i counts the entries that sort before it.
SortRank(c, i) ==
    Cardinality({j \in 1..Len(c) :
        \/ c[j].lastAccessed < c[i].lastAccessed
        \/ c[j].lastAccessed = c[i].lastAccessed /\ j < i})

cleanCache_ByTimestamp(c) ==
    IF Len(c) <= MAX_CACHE_SIZE
    THEN c
    ELSE Without(c, {i \in 1..Len(c) :
             Cardinality({j \in 1..Len(c) :
                 \/ c[j].timestamp < c[i].timestamp
                 \/ c[j].timestamp = c[i].timestamp /\ j < i})
                 < Len(c) - MAX_CACHE_SIZE})

cleanCache(c) ==
    IF Len(c) <= MAX_CACHE_SIZE
    THEN c
    ELSE Without(c, {i \in 1..Len(c) : SortRank(c, i) < Len(c) - MAX_CACHE_SIZE})

clearExpiredCache_ByAccess(c, t) ==
    Without(c, {i \in 1..Len(c) : t - c[i].lastAccessed >= CACHE_DURATION})

\* cache.forEach with cache.delete of the entries as old as CACHE_DURATION.
clearExpiredCache(c, t) ==
    Without(c, {i \in 1..Len(c) : t - c[i].timestamp >= CACHE_DURATION})

(***************************************************************************)
(* fetchWithRetry: one call chain is a record                              *)
(*   st       "none", "inflight" (fn called, not settled), "delay" (in     *)
(*            this.delay), "ok" (returned), "failed" (threw)               *)
(*   retries  the argument of the running call                             *)
(*   calls    invocations of fn so far;  delays: delays started so far     *)
(*   until    the time the running delay ends                              *)
(*   res      what the last invocation of fn settled with                  *)
(***************************************************************************)
NoRequest ==
    [st |-> "none", retries |-> 0, calls |-> 0, delays |-> 0, until |-> 0,
     res |-> NoOutcome]

\* fetchWithRetry(fn, retries) up to its await: fn is invoked.
fetchWithRetry(r, retries) ==
    [r EXCEPT !.st = "inflight", !.retries = retries, !.calls = @ + 1]

ShouldRetry_OnClientError(o, retries) ==
    retries > 0 /\ o.isAxiosError /\ o.hasResponse /\ o.status >= 400

ShouldRetry_OnceMore(o, retries) ==
    retries >= 0 /\ o.isAxiosError /\ o.hasResponse /\ o.status >= 500

\* The condition of the catch block, weatherStore.ts:175-180.
ShouldRetry(o, retries) ==
    retries > 0 /\ o.isAxiosError /\ o.hasResponse /\ o.status >= 500

\* fn settles with o at time t: return, or delay and retry, or throw.
fetchWithRetrySettle(r, o, t) ==
    IF o.kind = "ok"
    THEN [r EXCEPT !.st = "ok", !.res = o]
    ELSE IF ShouldRetry(o, r.retries)
    THEN [r EXCEPT !.st = "delay", !.res = o, !.delays = @ + 1,
                   !.until = t + RETRY_DELAY]
    ELSE [r EXCEPT !.st = "failed", !.res = o]

\* The delay is over: return this.fetchWithRetry(fn, retries - 1).
fetchWithRetryResume(r) == fetchWithRetry(r, r.retries - 1)

(***************************************************************************)
(* makeWeatherRequests and processWeatherData.  A call of fetchWeatherData *)
(* that waits on the network is a task: its params and cache key, the      *)
(* units its requests carry, who called it, and its three call chains      *)
(* (cw: /weather, fc: /forecast, aq: /air_pollution).                      *)
(***************************************************************************)
\* The body of the /weather response: data.name and data.coord.
WeatherResponse(params) ==
    [name |-> PlaceOf(params),
     lat |-> LatOf(PlaceOf(params)), lon |-> LonOf(PlaceOf(params))]

\* makeWeatherRequests up to its first await: requestParams reads
\* this.selectedUnit and the /weather chain starts.  admitted is the time
\* the throttle let the call through (0 for the call made by toggleUnit).
NewTask(params, units, origin, prevUnit, t) ==
    [params |-> params, cacheKey |-> getCacheKey(params), units |-> units,
     origin |-> origin, prevUnit |-> prevUnit,
     admitted |-> IF origin = "query" THEN t ELSE 0,
     cw |-> fetchWithRetry(NoRequest, MAX_RETRIES),
     fc |-> NoRequest, aq |-> NoRequest]

\* /weather has answered: the forecast and air-pollution chains start together.
StartParallel(tk) ==
    [tk EXCEPT !.fc = fetchWithRetry(NoRequest, MAX_RETRIES),
               !.aq = fetchWithRetry(NoRequest, MAX_RETRIES)]

makeWeatherRequests_NoCatch(tk) ==
    IF tk.cw.st = "failed" THEN [st |-> "rejected", error |-> tk.cw.res]
    ELSE IF tk.fc.st = "failed" THEN [st |-> "rejected", error |-> tk.fc.res]
    ELSE IF tk.aq.st = "failed" THEN [st |-> "rejected", error |-> tk.aq.res]
    ELSE IF tk.cw.st = "ok" /\ tk.fc.st = "ok" /\ tk.aq.st = "ok"
    THEN [st |-> "fulfilled", error |-> NoOutcome]
    ELSE [st |-> "pending", error |-> NoOutcome]

makeWeatherRequests_AirNotAwaited(tk) ==
    IF tk.cw.st = "failed" THEN [st |-> "rejected", error |-> tk.cw.res]
    ELSE IF tk.fc.st = "failed" THEN [st |-> "rejected", error |-> tk.fc.res]
    ELSE IF tk.cw.st = "ok" /\ tk.fc.st = "ok"
    THEN [st |-> "fulfilled", error |-> NoOutcome]
    ELSE [st |-> "pending", error |-> NoOutcome]

\* The promise of makeWeatherRequests: await of the /weather chain, then
\* Promise.all of the forecast chain and of the air-pollution chain with
\* .catch(() => null).
makeWeatherRequests(tk) ==
    IF tk.cw.st = "failed" THEN [st |-> "rejected", error |-> tk.cw.res]
    ELSE IF tk.fc.st = "failed" THEN [st |-> "rejected", error |-> tk.fc.res]
    ELSE IF tk.cw.st = "ok" /\ tk.fc.st = "ok" /\ tk.aq.st \in {"ok", "failed"}
    THEN [st |-> "fulfilled", error |-> NoOutcome]
    ELSE [st |-> "pending", error |-> NoOutcome]

\* processWeatherData throws when the forecast body has no list.
processWeatherDataThrows(forecast) == forecast = ForecastWithoutList

\* processWeatherData: the snapshot.  airQuality is present iff airPollution
\* is not null; units names the unit the values were requested in (the
\* snapshot holds the values, not the unit).
processWeatherData(currentWeather, airPollutionOk, units) ==
    [city |-> currentWeather.name,
     coord |-> [lat |-> currentWeather.lat, lon |-> currentWeather.lon],
     airQuality |-> airPollutionOk,
     units |-> units]

(***************************************************************************)
(* processWeatherData: the lists and the temperatures of the snapshot.     *)
(* Time is counted in slots, DAY slots to the day; a forecast item is      *)
(* [dt, temp] (item.dt, item.main.temp), a temperature is a whole number   *)
(* of quarters of a degree.  The clock is new Date() in slots since the    *)
(* epoch and tz the offset of the browser's local time from UTC in slots.  *)
(* slice(0, 8) and slice(0, 5) are scaled to HOURLY_ITEMS and              *)
(* FORECAST_DAYS.  The description, icon, humidity, wind and precipitation *)
(* of an entry are left out.                                               *)
(***************************************************************************)
\* Math.round(n / d): the nearest whole number, a half rounds up.
MathRound(n, d) == (2 * n + d) \div (2 * d)

SetMin(S) == CHOOSE x \in S : \A y \in S : x <= y
SetMax(S) == CHOOSE x \in S : \A y \in S : x >= y
TempsOf(items) == {items[i].temp : i \in 1..Len(items)}

\* date.toISOString().split('T')[0]: the UTC date, as its day number.
toISODate(t) == t \div DAY

\* new Date(dateStr): midnight UTC of that date.
DateOf(dateStr) == dateStr * DAY

\* new Date(now.getFullYear(), now.getMonth(), now.getDate()): midnight of
\* the local day, as an instant.
todayMidnight(clock, tz) == ((clock + tz) \div DAY) * DAY - tz

\* toLocaleTimeString: the local time of day.
toLocaleTime(t, tz) == (t + tz) % DAY

hourlyData(list, tz) ==
    [i \in 1..(IF Len(list) < HOURLY_ITEMS THEN Len(list) ELSE HOURLY_ITEMS) |->
        [time |-> toLocaleTime(list[i].dt, tz),
         temp |-> MathRound(list[i].temp, 4)]]

\* The Map dailyForecasts in insertion order, as a sequence of [date, items].
RECURSIVE dailyForecasts(_)
dailyForecasts(list) ==
    IF list = <<>> THEN <<>>
    ELSE LET m == dailyForecasts(SubSeq(list, 1, Len(list) - 1))
             item == list[Len(list)]
             dateStr == toISODate(item.dt)
         IN  IF \E k \in 1..Len(m) : m[k].date = dateStr
             THEN [k \in 1..Len(m) |->
                      IF m[k].date = dateStr
                      THEN [m[k] EXCEPT !.items = Append(@, item)]
                      ELSE m[k]]
             ELSE Append(m, [date |-> dateStr, items |-> <<item>>])

\* dailyForecasts.get(todayStr) || []
todayForecast(list, clock, tz) ==
    LET todayStr == toISODate(todayMidnight(clock, tz))
        m == dailyForecasts(list)
    IN  IF \E k \in 1..Len(m) : m[k].date = todayStr
        THEN m[CHOOSE k \in 1..Len(m) : m[k].date = todayStr].items
        ELSE <<>>

todayTemps(currentWeather, list, clock, tz) ==
    TempsOf(todayForecast(list, clock, tz))
        \cup {currentWeather.temp, currentWeather.temp_min, currentWeather.temp_max}

todayTempMin(currentWeather, list, clock, tz) ==
    IF Len(todayForecast(list, clock, tz)) > 0
    THEN SetMin(todayTemps(currentWeather, list, clock, tz))
    ELSE currentWeather.temp_min

todayTempMax(currentWeather, list, clock, tz) ==
    IF Len(todayForecast(list, clock, tz)) > 0
    THEN SetMax(todayTemps(currentWeather, list, clock, tz))
    ELSE currentWeather.temp_max

DailyEntry_MeanOfRounded(date, items) ==
    [date |-> date,
     temp |-> MathRound(MathRound(SetMax(TempsOf(items)), 4)
                            + MathRound(SetMin(TempsOf(items)), 4), 2),
     tempMin |-> MathRound(SetMin(TempsOf(items)), 4),
     tempMax |-> MathRound(SetMax(TempsOf(items)), 4)]

\* The entry of one day (weatherStore.ts:269-311).
DailyEntry(date, items) ==
    LET maxTemp == SetMax(TempsOf(items))
        minTemp == SetMin(TempsOf(items))
    IN  [date |-> date,
         temp |-> MathRound(maxTemp + minTemp, 8),
         tempMin |-> MathRound(minTemp, 4),
         tempMax |-> MathRound(maxTemp, 4)]

processedForecast(list, clock, tz) ==
    LET kept == SelectSeq(dailyForecasts(list),
                          LAMBDA g : DateOf(g.date) >= todayMidnight(clock, tz))
        entries == [i \in 1..Len(kept) |-> DailyEntry(kept[i].date, kept[i].items)]
    IN  SubSeq(entries, 1,
               IF Len(entries) < FORECAST_DAYS THEN Len(entries) ELSE FORECAST_DAYS)

\* The snapshot's city, coord, temperatures and lists (weatherStore.ts:317-350).
processWeatherDataLists(currentWeather, list, clock, tz) ==
    [city |-> currentWeather.name,
     coord |-> [lat |-> currentWeather.lat, lon |-> currentWeather.lon],
     current |-> [temp |-> MathRound(currentWeather.temp, 4),
                  tempMin |-> MathRound(todayTempMin(currentWeather, list, clock, tz), 4),
                  tempMax |-> MathRound(todayTempMax(currentWeather, list, clock, tz), 4)],
     forecast |-> processedForecast(list, clock, tz),
     hourlyForecast |-> hourlyData(list, tz)]

(***************************************************************************)
(* The state.                                                              *)
(***************************************************************************)
VARIABLES
    now,                  \* Date.now()
    API_KEY,              \* import.meta.env.VITE_OPENWEATHER_API_KEY is set
    storedFavorites,      \* localStorage['weather-favorites']
    storedUnits,          \* localStorage['weather-units']
    weatherData, loading, error, cache, cacheCleanupInterval,
    favorites, selectedUnit,
    lastExec,             \* the throttle's time of its last admitted call
    timers,               \* the active window.setInterval timers: [id, due]
    tasks,                \* the calls of fetchWeatherData on the network
    thrown,               \* a value given to handleError called on its own
    rt,                   \* a call chain of fetchWithRetry run on its own
    pw,                   \* a call of processWeatherData run on its own
    ck,                   \* two calls of getCacheKey run on their own
    opencageApiKey,       \* import.meta.env.VITE_OPENCAGE_API_KEY is set
    abortController,      \* WeatherSearch: the AbortController held, or null
    locationSuggestions,  \* WeatherSearch: the suggestions shown
    lookups,              \* WeatherSearch: the calls of fetchLocationSuggestions
    opsLeft,              \* the operations the run may still call
    serverErrors,         \* the server errors the API has answered so far
    lastOp                \* the operation that led to this state

storeVars ==
    <<storedFavorites, storedUnits, weatherData, loading, error, cache,
      favorites, selectedUnit, tasks>>
searchVars == <<opencageApiKey, abortController, locationSuggestions, lookups>>
vars ==
    <<now, API_KEY, storeVars, cacheCleanupInterval, lastExec, timers, thrown, rt,
      pw, ck, searchVars, opsLeft, serverErrors, lastOp>>

\* The fields the operations of the store read and write, as one record.
Store ==
    [storedFavorites |-> storedFavorites, storedUnits |-> storedUnits,
     weatherData |-> weatherData, loading |-> loading, error |-> error,
     cache |-> cache,
     favorites |-> favorites, selectedUnit |-> selectedUnit,
     tasks |-> tasks]

Commit(s) ==
    /\ storedFavorites' = s.storedFavorites
    /\ storedUnits' = s.storedUnits
    /\ weatherData' = s.weatherData
    /\ loading' = s.loading
    /\ error' = s.error
    /\ cache' = s.cache
    /\ favorites' = s.favorites
    /\ selectedUnit' = s.selectedUnit
    /\ tasks' = s.tasks

\* A run has as many slots for calls of fetchWeatherData on the network as
\* its initial state gives it.
Slots == DOMAIN tasks
FreeSlots(s) == {i \in DOMAIN s.tasks : s.tasks[i] = NULL}
StartTime == THROTTLE_MS + 1

\* The state of the store (weatherStore.ts:68-77) for what storage holds.
InitStore ==
    /\ weatherData = NULL
    /\ loading = FALSE
    /\ error = NULL
    /\ cache = <<>>
    /\ cacheCleanupInterval = NoInterval
    /\ favorites = loadStoredFavorites(storedFavorites)
    /\ selectedUnit = loadStoredUnits(storedUnits)
    /\ timers = {}
    /\ lastExec = 0

IdleRetry == [req |-> NoRequest, retries0 |-> 0, hist |-> <<>>]

\* A page load: the build has the API key or not, storage holds one of the
\* given values, and the run may call budget operations.
InitWith(keys, storedFavs, storedUs, budget, inFlight) ==
    /\ now = StartTime
    /\ API_KEY \in keys
    /\ storedFavorites \in storedFavs
    /\ storedUnits \in storedUs
    /\ InitStore
    /\ tasks = [i \in 1..inFlight |-> NULL]
    /\ opsLeft = budget
    /\ serverErrors = 0
    /\ lastOp = [op |-> "init"]

IdleProcess == [st |-> "idle"]

\* WeatherSearch.vue:11-14 as the component is set up.
SearchIdle ==
    /\ abortController = NoController
    /\ locationSuggestions = <<>>
    /\ lookups = <<>>

\* Neither a function nor the search component is being run on its own.
OthersIdle ==
    pw = IdleProcess /\ ck = IdleProcess /\ opencageApiKey = TRUE /\ SearchIdle

\* fetchWithRetry and handleError are not being run on their own.
FunctionInputsIdle == thrown = NoOutcome /\ rt = IdleRetry /\ OthersIdle

Init ==
    /\ InitWith(BOOLEAN, StoredFavoritesValues, StoredUnitsValues, MaxOps,
                MaxInFlight)
    /\ FunctionInputsIdle

(***************************************************************************)
(* The operations of the store, as functions of the store record s and of  *)
(* the time t of the call.                                                 *)
(***************************************************************************)
\* fetchWeatherData goes to the network: the key is configured and the
\* cache holds no valid entry for the key.
StartsRequest(s, params, t) ==
    LET i == CacheIndex(s.cache, getCacheKey(params))
    IN  API_KEY /\ ~(i # 0 /\ isCacheValid(s.cache[i], t))

\* fetchWeatherData up to its first await (weatherStore.ts:357-381).
fetchWeatherData(s, params, origin, prevUnit, t) ==
    IF ~API_KEY
    THEN [s EXCEPT !.error =
              [type |-> "UNKNOWN", message |-> "API key not configured"]]
    ELSE
    LET cacheKey == getCacheKey(params)
        i == CacheIndex(s.cache, cacheKey)
    IN  IF i # 0 /\ isCacheValid(s.cache[i], t)
        THEN [s EXCEPT !.weatherData = s.cache[i].data,
                       !.cache = updateCacheAccessTime(@, cacheKey, t),
                       !.error = NULL]
        ELSE LET slot == CHOOSE j \in FreeSlots(s) : \A k \in FreeSlots(s) : j <= k
             IN  [s EXCEPT !.loading = TRUE,
                           !.error = NULL,
                           !.tasks[slot] =
                               NewTask(params, s.selectedUnit, origin, prevUnit, t)]

fetchWeatherDataSettle_LoadingKept(s, i, which, o, t) ==
    LET tk == s.tasks[i]
        tk1 == [tk EXCEPT ![which] = fetchWithRetrySettle(tk[which], o, t)]
        tk2 == IF which = "cw" /\ tk1.cw.st = "ok" THEN StartParallel(tk1) ELSE tk1
        p == makeWeatherRequests(tk2)
        processedData ==
            processWeatherData(WeatherResponse(tk.params), tk2.aq.st = "ok", tk.units)
    IN  IF p.st = "pending"
        THEN [s EXCEPT !.tasks[i] = tk2]
        ELSE IF p.st = "fulfilled" /\ processWeatherDataThrows(tk2.fc.res)
        THEN [s EXCEPT !.error = handleError(TypeErrorNoList), !.tasks[i] = NULL]
        ELSE IF p.st = "fulfilled"
        THEN [s EXCEPT !.cache = CacheSet(@, [key |-> tk.cacheKey,
                                              data |-> processedData,
                                              timestamp |-> t,
                                              lastAccessed |-> t,
                                              compressed |->
                                                  compress(processedData)]),
                       !.weatherData = processedData,
                       !.loading = FALSE,
                       !.tasks[i] = NULL]
        ELSE [s EXCEPT !.error = handleError(p.error), !.tasks[i] = NULL]

\* The rest of fetchWeatherData (weatherStore.ts:381-398), run when fn of
fetchWeatherDataSettle_ErrorDropsEntry(s, i, which, o, t) ==
    LET tk == s.tasks[i]
        tk1 == [tk EXCEPT ![which] = fetchWithRetrySettle(tk[which], o, t)]
        tk2 == IF which = "cw" /\ tk1.cw.st = "ok" THEN StartParallel(tk1) ELSE tk1
        p == makeWeatherRequests(tk2)
        processedData ==
            processWeatherData(WeatherResponse(tk.params), tk2.aq.st = "ok", tk.units)
    IN  IF p.st = "pending"
        THEN [s EXCEPT !.tasks[i] = tk2]
        ELSE IF p.st = "fulfilled" /\ processWeatherDataThrows(tk2.fc.res)
        THEN [s EXCEPT !.error = handleError(TypeErrorNoList),
                       !.loading = FALSE,
                       !.tasks[i] = NULL]
        ELSE IF p.st = "fulfilled"
        THEN [s EXCEPT !.cache = CacheSet(@, [key |-> tk.cacheKey,
                                              data |-> processedData,
                                              timestamp |-> t,
                                              lastAccessed |-> t,
                                              compressed |->
                                                  compress(processedData)]),
                       !.weatherData = processedData,
                       !.loading = FALSE,
                       !.tasks[i] = NULL]
        ELSE [s EXCEPT !.error = handleError(p.error),
                       !.cache = Without(@, {CacheIndex(@, tk.cacheKey)}),
                       !.loading = FALSE,
                       !.tasks[i] = NULL]

\* chain which of task i settles with o: the chain returns, delays or
\* throws; then makeWeatherRequests is pending, or its promise is fulfilled
\* (process, cache.set, show; catch when processWeatherData throws) or
\* rejected (catch), and finally loading is reset.
fetchWeatherDataSettle(s, i, which, o, t) ==
    LET tk == s.tasks[i]
        tk1 == [tk EXCEPT ![which] = fetchWithRetrySettle(tk[which], o, t)]
        tk2 == IF which = "cw" /\ tk1.cw.st = "ok" THEN StartParallel(tk1) ELSE tk1
        p == makeWeatherRequests(tk2)
        processedData ==
            processWeatherData(WeatherResponse(tk.params), tk2.aq.st = "ok", tk.units)
    IN  IF p.st = "pending"
        THEN [s EXCEPT !.tasks[i] = tk2]
        ELSE IF p.st = "fulfilled" /\ processWeatherDataThrows(tk2.fc.res)
        THEN [s EXCEPT !.error = handleError(TypeErrorNoList),
                       !.loading = FALSE,
                       !.tasks[i] = NULL]
        ELSE IF p.st = "fulfilled"
        THEN [s EXCEPT !.cache = CacheSet(@, [key |-> tk.cacheKey,
                                              data |-> processedData,
                                              timestamp |-> t,
                                              lastAccessed |-> t,
                                              compressed |->
                                                  compress(processedData)]),
                       !.weatherData = processedData,
                       !.loading = FALSE,
                       !.tasks[i] = NULL]
        ELSE [s EXCEPT !.error = handleError(p.error),
                       !.loading = FALSE,
                       !.tasks[i] = NULL]

toggleUnit_KeepCache(s, setThrows, restoreThrows, t) ==
    LET newUnit == OtherUnit(s.selectedUnit)
        s2 == [s EXCEPT !.storedUnits = newUnit, !.selectedUnit = newUnit,
                        !.loading = TRUE]
    IN  IF s2.weatherData # NULL
        THEN LET s3 == fetchWeatherData(s2,
                           [lat |-> s2.weatherData.coord.lat,
                            lon |-> s2.weatherData.coord.lon],
                           "toggle", s.selectedUnit, t)
             IN  IF s3.tasks = s2.tasks THEN [s3 EXCEPT !.loading = FALSE] ELSE s3
        ELSE [s2 EXCEPT !.loading = FALSE]

\* toggleUnit (weatherStore.ts:417-448).  setThrows: the localStorage.setItem
\* of the try block throws; restoreThrows: the one of the catch block does.
\* The catch block is reached only when setItem throws: fetchWeatherData
\* catches its own failures.  The finally block runs when the awaited
\* fetchWeatherData is over; loading is false by then.
toggleUnit(s, setThrows, restoreThrows, t) ==
    LET s1 == [s EXCEPT !.loading = TRUE]
        newUnit == OtherUnit(s.selectedUnit)
    IN  IF setThrows
        THEN LET s2 == [s1 EXCEPT !.error = handleError(StorageException)]
                 previousUnit == OtherUnit(s2.selectedUnit)
             IN  IF restoreThrows
                 THEN [s2 EXCEPT !.loading = FALSE]
                 ELSE [s2 EXCEPT !.storedUnits = previousUnit,
                                 !.selectedUnit = previousUnit,
                                 !.loading = FALSE]
        ELSE LET s2 == [s1 EXCEPT !.storedUnits = newUnit,
                                  !.selectedUnit = newUnit,
                                  !.cache = <<>>]
             IN  IF s2.weatherData # NULL
                 THEN LET s3 == fetchWeatherData(s2,
                                    [lat |-> s2.weatherData.coord.lat,
                                     lon |-> s2.weatherData.coord.lon],
                                    "toggle", s.selectedUnit, t)
                      IN  IF s3.tasks = s2.tasks
                          THEN [s3 EXCEPT !.loading = FALSE]
                          ELSE s3
                 ELSE [s2 EXCEPT !.loading = FALSE]

\* saveFavorites: a throwing setItem is caught and leaves storage as it was.
saveFavorites_ErrorRecorded(s, setThrows) ==
    IF setThrows THEN [s EXCEPT !.error = handleError(StorageException)]
    ELSE [s EXCEPT !.storedFavorites = JSONstringify(s.favorites)]

saveFavorites(s, setThrows) ==
    IF setThrows THEN s
    ELSE [s EXCEPT !.storedFavorites = JSONstringify(s.favorites)]

addToFavorites(s, setThrows) ==
    IF s.weatherData # NULL
       /\ ~(\E i \in 1..Len(s.favorites) : s.favorites[i].name = s.weatherData.city)
    THEN saveFavorites(
             [s EXCEPT !.favorites =
                  Append(@, [name |-> s.weatherData.city,
                             lat |-> s.weatherData.coord.lat,
                             lon |-> s.weatherData.coord.lon])],
             setThrows)
    ELSE s

removeFromFavorites(s, cityName, setThrows) ==
    saveFavorites(
        [s EXCEPT !.favorites = SelectSeq(@, LAMBDA f : f.name # cityName)],
        setThrows)

clearStoredData_UnitKept(s) ==
    [s EXCEPT !.storedFavorites = StoredNull,
              !.storedUnits = "<null>",
              !.favorites = <<>>]

clearStoredData(s) ==
    [s EXCEPT !.storedFavorites = StoredNull,
              !.storedUnits = "<null>",
              !.favorites = <<>>,
              !.selectedUnit = "metric"]

(***************************************************************************)
(* The throttle of throttledFetchWeatherData: useThrottleFn(fn, 1000) of   *)
(* @vueuse/core with its defaults (leading edge, no trailing call) invokes *)
(* fn when more than the window has passed since the last invocation and   *)
(* drops the call otherwise.                                               *)
(***************************************************************************)
ThrottleInvokes_Always(elapsed) == TRUE

ThrottleInvokes(elapsed) == elapsed > THROTTLE_MS

\* What a call of fetchWeatherData found and did, for the record of the
\* operation: the age of the key's entry (-1: no entry), the time since its
\* last access and its data before the call, and whether the call went to
\* the network.
CallRecord(s, s2, params, t) ==
    LET i == CacheIndex(s.cache, getCacheKey(params))
    IN  [key |-> getCacheKey(params),
         entryAge |-> IF i = 0 THEN 0 - 1 ELSE t - s.cache[i].timestamp,
         entryIdle |-> IF i = 0 THEN 0 - 1 ELSE t - s.cache[i].lastAccessed,
         entryData |-> IF i = 0 THEN NULL ELSE s.cache[i].data,
         network |-> s2.tasks # s.tasks]

(***************************************************************************)
(* The actions: one per operation of the store, per callback, per event.   *)
(***************************************************************************)
\* An operation is called on the store.
Called == opsLeft > 0 /\ opsLeft' = opsLeft - 1 /\ UNCHANGED serverErrors

throttledFetchWeatherData_HitsServed(params) ==
    LET elapsed == now - lastExec
        admitted == ThrottleInvokes(elapsed)
        s == Store
        s2 == IF admitted \/ ~StartsRequest(s, params, now)
              THEN fetchWeatherData(s, params, "query", s.selectedUnit, now)
              ELSE s
    IN  /\ (admitted /\ StartsRequest(s, params, now)) => FreeSlots(s) # {}
        /\ Commit(s2)
        /\ lastExec' = IF admitted THEN now ELSE lastExec
        /\ lastOp' = [op |-> "query", params |-> params,
                      elapsed |-> elapsed, invoked |-> admitted,
                      call |-> CallRecord(s, s2, params, now)]
        /\ UNCHANGED <<now, API_KEY, cacheCleanupInterval, timers, thrown, rt, pw, ck, searchVars>>
    /\ Called

\* throttledFetchWeatherData(params): the throttle invokes fetchWeatherData
\* or drops the call.
throttledFetchWeatherData(params) ==
    LET elapsed == now - lastExec
        admitted == ThrottleInvokes(elapsed)
        s == Store
        s2 == IF admitted
              THEN fetchWeatherData(s, params, "query", s.selectedUnit, now)
              ELSE s
    IN  /\ (admitted /\ StartsRequest(s, params, now)) => FreeSlots(s) # {}
        /\ Commit(s2)
        /\ lastExec' = IF admitted THEN now ELSE lastExec
        /\ lastOp' = [op |-> "query", params |-> params,
                      elapsed |-> elapsed, invoked |-> admitted,
                      call |-> CallRecord(s, s2, params, now)]
        /\ UNCHANGED <<now, API_KEY, cacheCleanupInterval, timers, thrown, rt, pw, ck, searchVars>>
    /\ Called

FetchWeather == \E city \in Places : throttledFetchWeatherData([q |-> city])

FetchWeatherByCoords ==
    \E p \in Places :
        throttledFetchWeatherData([lat |-> LatOf(p), lon |-> LonOf(p)])

ToggleUnit ==
    \E setThrows \in BOOLEAN, restoreThrows \in BOOLEAN :
        LET s == Store
            s2 == toggleUnit(s, setThrows, restoreThrows, now)
        IN  /\ (~setThrows /\ weatherData # NULL) => FreeSlots(s) # {}
            /\ setThrows \/ ~restoreThrows
            /\ Commit(s2)
            /\ lastOp' = [op |-> "toggleUnit", prevUnit |-> s.selectedUnit,
                          setThrows |-> setThrows, restoreThrows |-> restoreThrows,
                          hadData |-> weatherData # NULL,
                          hadEntry |->
                              /\ weatherData # NULL
                              /\ LET i == CacheIndex(cache, getCacheKey(
                                              [lat |-> weatherData.coord.lat,
                                               lon |-> weatherData.coord.lon]))
                                 IN  i # 0 /\ isCacheValid(cache[i], now),
                          network |-> s2.tasks # s.tasks]
            /\ UNCHANGED <<now, API_KEY, cacheCleanupInterval, lastExec, timers, thrown, rt, pw, ck, searchVars>>
    /\ Called

\* A request of a task settles: the network answers, or fails.  A server
\* error is answered while the run has the time left for the retry delay.  The record
\* of a call that is over names its key and how each of its chains ended.
Respond(outcomes) ==
    \E i \in Slots, which \in {"cw", "fc", "aq"}, o \in outcomes :
        /\ o = ForecastWithoutList => which = "fc"
        /\ tasks[i] # NULL
        /\ tasks[i][which].st = "inflight"
        /\ IF o.kind = "fail" /\ o.hasResponse /\ o.status >= 500
           THEN /\ serverErrors < MaxServerErrors
                /\ now + RETRY_DELAY <= MaxTime
                /\ serverErrors' = serverErrors + 1
           ELSE UNCHANGED serverErrors
        /\ LET s2 == fetchWeatherDataSettle(Store, i, which, o, now)
               chain == fetchWithRetrySettle(tasks[i][which], o, now)
           IN  /\ Commit(s2)
               /\ lastOp' =
                    IF s2.tasks[i] # NULL
                    THEN [op |-> "response", which |-> which]
                    ELSE [op |-> "settled",
                          key |-> tasks[i].cacheKey,
                          origin |-> tasks[i].origin,
                          prevUnit |-> tasks[i].prevUnit,
                          units |-> tasks[i].units,
                          admitted |-> tasks[i].admitted,
                          last |-> o,
                          normalized |->
                              ~processWeatherDataThrows(
                                  IF which = "fc" THEN o ELSE tasks[i].fc.res),
                          cw |-> IF which = "cw" THEN chain.st ELSE tasks[i].cw.st,
                          fc |-> IF which = "fc" THEN chain.st ELSE tasks[i].fc.st,
                          aq |-> IF which = "aq" THEN chain.st ELSE tasks[i].aq.st]
        /\ UNCHANGED <<now, API_KEY, cacheCleanupInterval, lastExec, timers, thrown, rt, pw, ck, searchVars>>
        /\ UNCHANGED opsLeft

\* The API answers with a well-formed body, or fails.
Response == Respond(ApiOutcomes)

\* The API answers, fails, or answers /forecast with a body without list.
ResponseAnyBody == Respond(ApiOutcomes \cup {ForecastWithoutList})

\* The delay of a retrying chain is over: fn is invoked again.
RetryDelayOver ==
    \E i \in Slots, which \in {"cw", "fc", "aq"} :
        /\ tasks[i] # NULL
        /\ tasks[i][which].st = "delay"
        /\ tasks[i][which].until <= now
        /\ tasks' = [tasks EXCEPT ![i][which] = fetchWithRetryResume(@)]
        /\ lastOp' = [op |-> "retry", which |-> which]
        /\ UNCHANGED <<now, API_KEY, storedFavorites, storedUnits, weatherData,
                       loading, error, cache, favorites,
                       selectedUnit, cacheCleanupInterval, lastExec, timers, thrown, rt, pw, ck, searchVars>>
    /\ UNCHANGED <<opsLeft, serverErrors>>

AddToFavorites ==
    \E setThrows \in BOOLEAN :
        /\ Commit(addToFavorites(Store, setThrows))
        /\ lastOp' = [op |-> "addToFavorites", before |-> favorites,
                      shown |-> weatherData # NULL]
        /\ UNCHANGED <<now, API_KEY, cacheCleanupInterval, lastExec, timers, thrown, rt, pw, ck, searchVars>>
    /\ Called

RemoveFromFavorites ==
    \E cityName \in Places, setThrows \in BOOLEAN :
        /\ Commit(removeFromFavorites(Store, cityName, setThrows))
        /\ lastOp' = [op |-> "removeFromFavorites", before |-> favorites,
                      name |-> cityName]
        /\ UNCHANGED <<now, API_KEY, cacheCleanupInterval, lastExec, timers, thrown, rt, pw, ck, searchVars>>
    /\ Called

ClearCache_ExpiredOnly ==
    /\ Commit([Store EXCEPT !.cache = clearExpiredCache(@, now)])
    /\ lastOp' = [op |-> "clearCache", before |-> cache, previous |-> lastOp.op]
    /\ UNCHANGED <<now, API_KEY, cacheCleanupInterval, lastExec, timers, thrown, rt, pw, ck, searchVars>>
    /\ Called

\* clearCache (weatherStore.ts:480-482): this.cache.clear().
ClearCache ==
    /\ Commit([Store EXCEPT !.cache = <<>>])
    /\ lastOp' = [op |-> "clearCache", before |-> cache, previous |-> lastOp.op]
    /\ UNCHANGED <<now, API_KEY, cacheCleanupInterval, lastExec, timers, thrown, rt, pw, ck, searchVars>>
    /\ Called

ClearExpiredCache ==
    /\ Commit([Store EXCEPT !.cache = clearExpiredCache(@, now)])
    /\ lastOp' = [op |-> "clearExpiredCache", before |-> cache]
    /\ UNCHANGED <<now, API_KEY, cacheCleanupInterval, lastExec, timers, thrown, rt, pw, ck, searchVars>>
    /\ Called

ClearStoredData ==
    /\ Commit(clearStoredData(Store))
    /\ lastOp' = [op |-> "clearStoredData"]
    /\ UNCHANGED <<now, API_KEY, cacheCleanupInterval, lastExec, timers, thrown, rt, pw, ck, searchVars>>
    /\ Called

\* The page is loaded again: the store is created from what storage holds
\* (weatherStore.ts:30-77); calls on the network and timers of the page
\* before are gone.
Reload ==
    /\ weatherData' = NULL
    /\ loading' = FALSE
    /\ error' = NULL
    /\ cache' = <<>>
    /\ cacheCleanupInterval' = NoInterval
    /\ favorites' = loadStoredFavorites(storedFavorites)
    /\ selectedUnit' = loadStoredUnits(storedUnits)
    /\ timers' = {}
    /\ lastExec' = 0
    /\ tasks' = [i \in Slots |-> NULL]
    /\ lastOp' = [op |-> "reload"]
    /\ UNCHANGED <<now, API_KEY, storedFavorites, storedUnits, thrown, rt, pw, ck, searchVars>>
    /\ Called

\* window.setInterval: a fresh positive id.
FreshTimerId == CHOOSE n \in 1..(Cardinality(timers) + 1) :
                    /\ \A tm \in timers : tm.id # n
                    /\ \A m \in 1..(n - 1) : \E tm \in timers : tm.id = m

\* initialize, with initializeCacheCleanup (weatherStore.ts:114-128, 143-148).
Initialize ==
    /\ IF cacheCleanupInterval = NoInterval
       THEN /\ cacheCleanupInterval' = FreshTimerId
            /\ timers' = timers \cup
                   {[id |-> FreshTimerId, due |-> now + CLEANUP_INTERVAL]}
       ELSE UNCHANGED <<cacheCleanupInterval, timers>>
    /\ lastOp' = [op |-> "initialize"]
    /\ UNCHANGED <<now, API_KEY, storeVars, lastExec, thrown, rt, pw, ck, searchVars>>
    /\ Called

Cleanup_TimerLeft ==
    /\ cacheCleanupInterval' = NoInterval
    /\ lastOp' = [op |-> "cleanup"]
    /\ UNCHANGED <<now, API_KEY, storeVars, lastExec, thrown, rt, pw, ck, searchVars, timers>>
    /\ Called

\* cleanup (weatherStore.ts:151-157).
Cleanup ==
    /\ IF cacheCleanupInterval # NoInterval
       THEN /\ timers' = {tm \in timers : tm.id # cacheCleanupInterval}
            /\ cacheCleanupInterval' = NoInterval
       ELSE UNCHANGED <<cacheCleanupInterval, timers>>
    /\ lastOp' = [op |-> "cleanup"]
    /\ UNCHANGED <<now, API_KEY, storeVars, lastExec, thrown, rt, pw, ck, searchVars>>
    /\ Called

TimerFires_DropsSnapshot ==
    \E tm \in timers :
        /\ tm.due <= now
        /\ Commit([Store EXCEPT
               !.cache = cleanCache(@),
               !.weatherData =
                   IF \E i \in 1..Len(cleanCache(cache)) :
                          cleanCache(cache)[i].data = weatherData
                   THEN @ ELSE NULL])
        /\ timers' = (timers \ {tm}) \cup
                         {[tm EXCEPT !.due = @ + CLEANUP_INTERVAL]}
        /\ lastOp' = [op |-> "timer", before |-> cache]
        /\ UNCHANGED <<now, API_KEY, cacheCleanupInterval, lastExec, thrown, rt, pw, ck, searchVars>>
    /\ UNCHANGED <<opsLeft, serverErrors>>

\* The callback of the interval timer: this.cleanCache().
TimerFires ==
    \E tm \in timers :
        /\ tm.due <= now
        /\ Commit([Store EXCEPT !.cache = cleanCache(@)])
        /\ timers' = (timers \ {tm}) \cup
                         {[tm EXCEPT !.due = @ + CLEANUP_INTERVAL]}
        /\ lastOp' = [op |-> "timer", before |-> cache]
        /\ UNCHANGED <<now, API_KEY, cacheCleanupInterval, lastExec, thrown, rt, pw, ck, searchVars>>
    /\ UNCHANGED <<opsLeft, serverErrors>>

\* Time passes.  Timers and retry delays run when they are due.
Tick ==
    /\ now < MaxTime
    /\ \A tm \in timers : tm.due > now
    /\ \A i \in Slots : tasks[i] # NULL =>
           \A which \in {"cw", "fc", "aq"} :
               tasks[i][which].st = "delay" => tasks[i][which].until > now
    /\ now' = now + 1
    /\ lastOp' = [op |-> "tick"]
    /\ UNCHANGED <<API_KEY, storeVars, cacheCleanupInterval, lastExec, timers, thrown, rt, pw, ck, searchVars>>
    /\ UNCHANGED <<opsLeft, serverErrors>>

Next ==
    \/ FetchWeather
    \/ FetchWeatherByCoords
    \/ ToggleUnit
    \/ Response
    \/ RetryDelayOver
    \/ AddToFavorites
    \/ RemoveFromFavorites
    \/ ClearCache
    \/ ClearExpiredCache
    \/ ClearStoredData
    \/ Initialize
    \/ Cleanup
    \/ TimerFires
    \/ Tick

Spec == Init /\ [][Next]_vars

(***************************************************************************)
(* The queries, the cache and its timer, from an empty storage.            *)
(***************************************************************************)
CacheInit ==
    InitWith({TRUE}, {StoredNull}, {"<null>"}, MaxCacheOps, 1) /\ FunctionInputsIdle

CacheNext ==
    \/ FetchWeather
    \/ FetchWeatherByCoords
    \/ Response
    \/ RetryDelayOver
    \/ Initialize
    \/ TimerFires
    \/ Tick

CacheSpec == CacheInit /\ [][CacheNext]_vars

(***************************************************************************)
(* The unit toggle and the queries.                                        *)
(***************************************************************************)
UnitInit ==
    InitWith({TRUE}, {StoredNull}, StoredUnitsValues, MaxUnitOps, 1) /\ FunctionInputsIdle

UnitNext ==
    \/ FetchWeather
    \/ FetchWeatherByCoords
    \/ ToggleUnit
    \/ Response
    \/ RetryDelayOver
    \/ Tick

UnitSpec == UnitInit /\ [][UnitNext]_vars

(***************************************************************************)
(* The unit preference: toggles and clearStoredData, from any stored unit. *)
(***************************************************************************)
PreferenceInit ==
    /\ InitWith({TRUE}, {StoredNull}, StoredUnitsValues, MaxPreferenceOps, 1)
    /\ FunctionInputsIdle

PreferenceNext ==
    \/ FetchWeather
    \/ ToggleUnit
    \/ ClearStoredData
    \/ Response
    \/ RetryDelayOver
    \/ Tick

PreferenceSpec == PreferenceInit /\ [][PreferenceNext]_vars

(***************************************************************************)
(* Loading the store from any stored values, well-formed or not.           *)
(***************************************************************************)
LoadInit ==
    /\ InitWith({TRUE}, StoredFavoritesValues \cup MalformedFavoritesValues,
                StoredUnitsValues, MaxLoadOps, 1)
    /\ FunctionInputsIdle

LoadNext ==
    \/ Reload
    \/ RemoveFromFavorites
    \/ ClearStoredData

LoadSpec == LoadInit /\ [][LoadNext]_vars

(***************************************************************************)
(* The clean-up timer: initialize, cleanup, the timer and time.            *)
(***************************************************************************)
TimerInit ==
    InitWith({TRUE}, {StoredNull}, {"<null>"}, MaxTimerOps, 1) /\ FunctionInputsIdle

TimerNext ==
    \/ Initialize
    \/ Cleanup
    \/ TimerFires
    \/ Tick

TimerSpec == TimerInit /\ [][TimerNext]_vars

(***************************************************************************)
(* The queries and clearExpiredCache.                                      *)
(***************************************************************************)
ExpiryInit ==
    InitWith({TRUE}, {StoredNull}, {"<null>"}, MaxExpiryOps, 1) /\ FunctionInputsIdle

ExpiryNext ==
    \/ FetchWeather
    \/ FetchWeatherByCoords
    \/ Response
    \/ RetryDelayOver
    \/ ClearExpiredCache
    \/ Tick

ExpirySpec == ExpiryInit /\ [][ExpiryNext]_vars

(***************************************************************************)
(* The interval timer on a filled cache.  Between two runs of the timer    *)
(* (5 minutes) the throttle (1 second) admits hundreds of queries; the     *)
(* scaled CLEANUP_INTERVAL and THROTTLE_MS do not, so a run starts on a    *)
(* page that called initialize (main.ts:13) at StartTime and has filled    *)
(* its cache since: up to MaxHeld entries of different keys, each written  *)
(* and last read at StartTime or one time unit later.                      *)
(***************************************************************************)
HeldTimes == StartTime..(StartTime + 1)

HeldEntry(params, timestamp, lastAccessed) ==
    LET processedData == processWeatherData(WeatherResponse(params), TRUE, "metric")
    IN  [key |-> getCacheKey(params),
         data |-> processedData,
         timestamp |-> timestamp,
         lastAccessed |-> lastAccessed,
         compressed |-> compress(processedData)]

HeldEntries ==
    {e \in {HeldEntry(p, ts, la) : p \in QueryParams, ts \in HeldTimes, la \in HeldTimes} :
        e.timestamp <= e.lastAccessed}

HeldCaches ==
    {c \in UNION {[1..n -> HeldEntries] : n \in 0..MaxHeld} :
        \A i, j \in 1..Len(c) : c[i].key = c[j].key => i = j}

RECURSIVE LastAccess(_)
LastAccess(c) ==
    IF c = <<>> THEN 0
    ELSE LET rest == LastAccess(Tail(c))
         IN  IF Head(c).lastAccessed > rest THEN Head(c).lastAccessed ELSE rest

EvictionInit ==
    /\ now = StartTime + 1
    /\ API_KEY = TRUE
    /\ storedFavorites = StoredNull
    /\ storedUnits = "<null>"
    /\ favorites = loadStoredFavorites(storedFavorites)
    /\ selectedUnit = loadStoredUnits(storedUnits)
    /\ cache \in HeldCaches
    /\ weatherData = IF cache = <<>> THEN NULL ELSE cache[Len(cache)].data
    /\ loading = FALSE
    /\ error = NULL
    /\ cacheCleanupInterval = 1
    /\ timers = {[id |-> 1, due |-> StartTime + CLEANUP_INTERVAL]}
    /\ lastExec = LastAccess(cache)
    /\ tasks = [i \in 1..1 |-> NULL]
    /\ opsLeft = MaxEvictionOps
    /\ serverErrors = 0
    /\ lastOp = [op |-> "init"]
    /\ FunctionInputsIdle

EvictionNext ==
    \/ FetchWeather
    \/ Response
    \/ RetryDelayOver
    \/ TimerFires
    \/ Tick

EvictionSpec == EvictionInit /\ [][EvictionNext]_vars

(***************************************************************************)
(* The interval timer on a cache that holds entries of different ages.     *)
(* The timer ran last at StartTime and runs next CLEANUP_INTERVAL later;   *)
(* the cache holds up to MaxAged entries written since one time unit       *)
(* before StartTime in the order they were written, each last read while  *)
(* it was valid, and at most MAX_CACHE_SIZE of them are from before the    *)
(* timer's last run.                                                       *)
(***************************************************************************)
AgedTimes == (StartTime - 1)..(StartTime + 1)

AgedEntries ==
    {e \in {HeldEntry(p, ts, la) : p \in QueryParams, ts \in AgedTimes, la \in AgedTimes} :
        /\ e.timestamp <= e.lastAccessed
        /\ isCacheValid(e, e.lastAccessed)}

AgedCaches ==
    {c \in UNION {[1..n -> AgedEntries] : n \in 0..MaxAged} :
        /\ \A i, j \in 1..Len(c) : c[i].key = c[j].key => i = j
        /\ \A i, j \in 1..Len(c) : i < j => c[i].timestamp <= c[j].timestamp
        /\ Cardinality({i \in 1..Len(c) : c[i].timestamp < StartTime})
               <= MAX_CACHE_SIZE}

AgedInit ==
    /\ now = StartTime + 1
    /\ API_KEY = TRUE
    /\ storedFavorites = StoredNull
    /\ storedUnits = "<null>"
    /\ favorites = loadStoredFavorites(storedFavorites)
    /\ selectedUnit = loadStoredUnits(storedUnits)
    /\ cache \in AgedCaches
    /\ weatherData = IF cache = <<>> THEN NULL ELSE cache[Len(cache)].data
    /\ loading = FALSE
    /\ error = NULL
    /\ cacheCleanupInterval = 1
    /\ timers = {[id |-> 1, due |-> StartTime + CLEANUP_INTERVAL]}
    /\ lastExec = LastAccess(cache)
    /\ tasks = [i \in 1..1 |-> NULL]
    /\ opsLeft = MaxEvictionOps
    /\ serverErrors = 0
    /\ lastOp = [op |-> "init"]
    /\ FunctionInputsIdle

AgedSpec == AgedInit /\ [][EvictionNext]_vars

(***************************************************************************)
(* WeatherSearch.vue: fetchLocationSuggestions.  A call is a record        *)
(*   query   the text looked up                                            *)
(*   signal  the AbortController made by the call (its number)             *)
(*   st      "live" (axios.get not settled), "aborted" (its signal was     *)
(*           aborted, the rejection not yet handled), "done"               *)
(* A call runs to its await in one step and from the settling of the       *)
(* request to its end in another.                                          *)
(***************************************************************************)
SearchQueries == {"Par", "Osl"}

\* The name of the error axios.get rejects with when its signal is aborted
\* (CanceledError in axios 1.x; AbortError is what the component tests for).
AbortNames == {"CanceledError", "AbortError"}

SearchUnchanged ==
    UNCHANGED <<now, API_KEY, storeVars, cacheCleanupInterval, lastExec, timers,
                thrown, rt, pw, ck, opencageApiKey, serverErrors>>

\* abortController.value.abort(): the request made with that signal rejects.
Abort(ls, controller) ==
    [i \in 1..Len(ls) |->
        IF ls[i].signal = controller /\ ls[i].st = "live"
        THEN [ls[i] EXCEPT !.st = "aborted"]
        ELSE ls[i]]

\* fetchLocationSuggestions(query) up to its await (WeatherSearch.vue:100-114).
FetchLocationSuggestions ==
    \E query \in SearchQueries :
        /\ IF ~opencageApiKey
           THEN UNCHANGED <<abortController, locationSuggestions, lookups>>
           ELSE LET controller == Len(lookups) + 1
                    ls == IF abortController # NoController
                          THEN Abort(lookups, abortController)
                          ELSE lookups
                IN  /\ abortController' = controller
                    /\ lookups' = Append(ls, [query |-> query,
                                              signal |-> controller,
                                              st |-> "live"])
                    /\ UNCHANGED locationSuggestions
        /\ lastOp' = [op |-> "fetchLocationSuggestions", query |-> query]
        /\ opsLeft > 0
        /\ opsLeft' = opsLeft - 1
        /\ SearchUnchanged

\* The request of call i settles with a response or with an error that is no
\* abort; the call runs to its end (WeatherSearch.vue:115-126).
LookupSettles ==
    \E i \in 1..Len(lookups), ok \in BOOLEAN :
        /\ lookups[i].st = "live"
        /\ locationSuggestions' =
               IF ok THEN <<[formatted |-> lookups[i].query]>> ELSE <<>>
        /\ abortController' = NoController
        /\ lookups' = [lookups EXCEPT ![i].st = "done"]
        /\ lastOp' = [op |-> "lookupSettled", lookup |-> i, latest |-> Len(lookups),
                      assigned |-> TRUE, live |-> TRUE]
        /\ UNCHANGED opsLeft
        /\ SearchUnchanged

\* The rejection of the aborted request of call i is handled: catch and
\* finally (WeatherSearch.vue:117-126).
LookupAborted ==
    \E i \in 1..Len(lookups), name \in AbortNames :
        /\ lookups[i].st = "aborted"
        /\ locationSuggestions' =
               IF name # "AbortError" THEN <<>> ELSE locationSuggestions
        /\ abortController' = NoController
        /\ lookups' = [lookups EXCEPT ![i].st = "done"]
        /\ lastOp' = [op |-> "lookupSettled", lookup |-> i, latest |-> Len(lookups),
                      assigned |-> name # "AbortError", live |-> FALSE]
        /\ UNCHANGED opsLeft
        /\ SearchUnchanged

SearchInit ==
    /\ InitWith({TRUE}, {StoredNull}, {"<null>"}, MaxLookups, 1)
    /\ thrown = NoOutcome
    /\ rt = IdleRetry
    /\ pw = IdleProcess
    /\ ck = IdleProcess
    /\ opencageApiKey \in BOOLEAN
    /\ SearchIdle

SearchNext == FetchLocationSuggestions \/ LookupSettles \/ LookupAborted

SearchSpec == SearchInit /\ [][SearchNext]_vars

(***************************************************************************)
(* processWeatherData on its own: any reading of /weather, named or with   *)
(* the empty name the API gives a place it cannot name, any forecast list  *)
(* of up to MaxItems items one slot apart that starts at the clock's slot  *)
(* or the next, in a browser west of, at and east of UTC.                  *)
(***************************************************************************)
TempValues == {0 - 6, 1, 10}
TimezoneOffsets == {0 - 1, 0, 1}
Clocks == {2 * DAY, 2 * DAY + 1}

Readings ==
    {r \in [temp : TempValues, temp_min : TempValues, temp_max : TempValues] :
        r.temp_min <= r.temp /\ r.temp <= r.temp_max}

CurrentWeatherBodies ==
    {[name |-> n, lat |-> LatOf("Paris"), lon |-> LonOf("Paris"),
      temp |-> r.temp, temp_min |-> r.temp_min, temp_max |-> r.temp_max] :
        n \in {"Paris", ""}, r \in Readings}

ForecastLists(clock) ==
    UNION {{[i \in 1..n |-> [dt |-> first + i - 1, temp |-> temps[i]]] :
               temps \in [1..n -> TempValues], first \in {clock, clock + 1}} :
           n \in 0..MaxItems}

ProcessInit ==
    /\ InitWith({TRUE}, {StoredNull}, {"<null>"}, 0, 1)
    /\ thrown = NoOutcome
    /\ rt = IdleRetry
    /\ ck = IdleProcess
    /\ opencageApiKey = TRUE
    /\ SearchIdle
    /\ \E clock \in Clocks, tz \in TimezoneOffsets :
       \E cw \in CurrentWeatherBodies, list \in ForecastLists(clock) :
           pw = [st |-> "called", currentWeather |-> cw, list |-> list,
                 clock |-> clock, tz |-> tz]

ProcessWeatherData ==
    /\ pw.st = "called"
    /\ pw' = [st |-> "returned", currentWeather |-> pw.currentWeather,
              list |-> pw.list, clock |-> pw.clock, tz |-> pw.tz,
              out |-> processWeatherDataLists(pw.currentWeather, pw.list,
                                              pw.clock, pw.tz)]
    /\ lastOp' = [op |-> "processWeatherData"]
    /\ UNCHANGED <<now, API_KEY, storeVars, cacheCleanupInterval, lastExec, timers,
                   thrown, rt, ck, searchVars, opsLeft, serverErrors>>

ProcessNext == ProcessWeatherData

ProcessSpec == ProcessInit /\ [][ProcessNext]_vars

(***************************************************************************)
(* getCacheKey on its own, for the params of two queries: fetchWeather     *)
(* passes {q: city} for any text, fetchWeatherByCoords passes {lat, lon}.  *)
(***************************************************************************)
QueryTexts == Places \cup {"48,2", "59,10", "2,48", ""}

AnyQueryParams == {[q |-> text] : text \in QueryTexts} \cup CoordParams

CacheKeyInit ==
    /\ InitWith({TRUE}, {StoredNull}, {"<null>"}, 0, 1)
    /\ thrown = NoOutcome
    /\ rt = IdleRetry
    /\ pw = IdleProcess
    /\ opencageApiKey = TRUE
    /\ SearchIdle
    /\ \E first \in AnyQueryParams, second \in AnyQueryParams :
           ck = [st |-> "called", first |-> first, second |-> second]

GetCacheKeys ==
    /\ ck.st = "called"
    /\ ck' = [st |-> "returned", first |-> ck.first, second |-> ck.second,
              keys |-> <<getCacheKey(ck.first), getCacheKey(ck.second)>>]
    /\ lastOp' = [op |-> "getCacheKey"]
    /\ UNCHANGED <<now, API_KEY, storeVars, cacheCleanupInterval, lastExec, timers,
                   thrown, rt, pw, searchVars, opsLeft, serverErrors>>

CacheKeyNext == GetCacheKeys

CacheKeySpec == CacheKeyInit /\ [][CacheKeyNext]_vars

(***************************************************************************)
(* Queries in a build with and in a build without                          *)
(* VITE_OPENWEATHER_API_KEY.                                               *)
(***************************************************************************)
KeyInit ==
    InitWith(BOOLEAN, {StoredNull}, {"<null>"}, MaxKeyOps, 1) /\ FunctionInputsIdle

KeyNext ==
    \/ FetchWeather
    \/ FetchWeatherByCoords
    \/ Response
    \/ RetryDelayOver
    \/ Tick

KeySpec == KeyInit /\ [][KeyNext]_vars

(***************************************************************************)
(* Calls of fetchWeatherData that overlap: a query or a toggle while an    *)
(* earlier call is still on the network or in a retry delay.               *)
(***************************************************************************)
OverlapInit ==
    InitWith({TRUE}, {StoredNull}, {"<null>"}, MaxOverlapOps, 2) /\ FunctionInputsIdle

OverlapNext ==
    \/ FetchWeather
    \/ FetchWeatherByCoords
    \/ ToggleUnit
    \/ Response
    \/ RetryDelayOver
    \/ Tick

OverlapSpec == OverlapInit /\ [][OverlapNext]_vars

(***************************************************************************)
(* The operations that are no fetch and no toggle, next to the queries.    *)
(***************************************************************************)
FrameInit ==
    InitWith({TRUE}, {StoredNull}, {"<null>"}, MaxFrameOps, 1) /\ FunctionInputsIdle

FrameNext ==
    \/ FetchWeather
    \/ Response
    \/ RetryDelayOver
    \/ AddToFavorites
    \/ RemoveFromFavorites
    \/ ClearCache
    \/ ClearExpiredCache
    \/ Initialize
    \/ TimerFires
    \/ Tick

FrameSpec == FrameInit /\ [][FrameNext]_vars

(***************************************************************************)
(* The favourites, from any stored list.                                   *)
(***************************************************************************)
FavoritesInit ==
    /\ InitWith({TRUE}, StoredFavoritesValues, {"<null>"}, MaxFavoriteOps, 1)
    /\ FunctionInputsIdle

FavoritesNext ==
    \/ FetchWeather
    \/ Response
    \/ AddToFavorites
    \/ RemoveFromFavorites
    \/ ClearStoredData
    \/ Tick

FavoritesSpec == FavoritesInit /\ [][FavoritesNext]_vars

(***************************************************************************)
(* The calls of fetchWeatherData; a /forecast answer may lack its list.     *)
(* FetchLiveSpec: the API settles every request (weak fairness of the      *)
(* answers), timeouts fire and time passes.                                *)
(***************************************************************************)
FetchInit ==
    InitWith({TRUE}, {StoredNull}, {"<null>"}, MaxFetchOps, 1) /\ FunctionInputsIdle

FetchNext ==
    \/ FetchWeather
    \/ FetchWeatherByCoords
    \/ ResponseAnyBody
    \/ RetryDelayOver
    \/ Tick

FetchSpec == FetchInit /\ [][FetchNext]_vars

FetchLiveInit ==
    InitWith({TRUE}, {StoredNull}, {"<null>"}, MaxLiveOps, 1) /\ FunctionInputsIdle

FetchLiveSpec ==
    /\ FetchLiveInit /\ [][FetchNext]_vars
    /\ WF_vars(ResponseAnyBody) /\ WF_vars(RetryDelayOver) /\ WF_vars(Tick)

(***************************************************************************)
(* fetchWithRetry(fn, retries) on its own: fn settles with any outcome,    *)
(* hist lists what its invocations settled with.  Every invocation of fn   *)
(* settles and every delay ends (setTimeout fires): weak fairness.         *)
(***************************************************************************)
RetryOutcomes ==
    ApiOutcomes \cup
    {HttpError(429, ""), HttpError(503, ""),
     Outcome("fail", FALSE, FALSE, 0, "", TRUE, "boom")}

RetryInit ==
    /\ InitWith({TRUE}, {StoredNull}, {"<null>"}, 0, 1)
    /\ thrown = NoOutcome
    /\ OthersIdle
    /\ \E n \in 0..MaxRetriesArg :
           rt = [req |-> fetchWithRetry(NoRequest, n), retries0 |-> n, hist |-> <<>>]

RetryUnchanged ==
    UNCHANGED <<API_KEY, storeVars, cacheCleanupInterval, lastExec, timers,
                thrown, pw, ck, searchVars, opsLeft, serverErrors>>

FnSettles ==
    \E o \in RetryOutcomes :
        /\ rt.req.st = "inflight"
        /\ rt' = [rt EXCEPT !.req = fetchWithRetrySettle(@, o, now),
                            !.hist = Append(@, o)]
        /\ lastOp' = [op |-> "fnSettles"]
        /\ UNCHANGED now
        /\ RetryUnchanged

DelayEnds ==
    /\ rt.req.st = "delay"
    /\ now' = rt.req.until
    /\ rt' = [rt EXCEPT !.req = fetchWithRetryResume(@)]
    /\ lastOp' = [op |-> "delayEnds"]
    /\ RetryUnchanged

RetryNext == FnSettles \/ DelayEnds

RetrySpec ==
    RetryInit /\ [][RetryNext]_vars /\ WF_vars(FnSettles) /\ WF_vars(DelayEnds)

(***************************************************************************)
(* handleError on its own, given any thrown value.                         *)
(***************************************************************************)
HandleErrorInit ==
    /\ InitWith({TRUE}, {StoredNull}, {"<null>"}, 0, 1)
    /\ rt = IdleRetry
    /\ OthersIdle
    /\ thrown \in ThrownValues

HandleError ==
    /\ lastOp.op = "init"
    /\ error' = handleError(thrown)
    /\ lastOp' = [op |-> "handleError"]
    /\ UNCHANGED <<now, API_KEY, storedFavorites, storedUnits, weatherData,
                   loading, cache, favorites, selectedUnit, tasks,
                   cacheCleanupInterval, lastExec, timers, thrown, rt, pw, ck, searchVars,
                   opsLeft,
                   serverErrors>>

HandleErrorNext == HandleError

HandleErrorSpec == HandleErrorInit /\ [][HandleErrorNext]_vars

(***************************************************************************)
(* Properties.                                                             *)
(***************************************************************************)
\* The entry of the key in the cache, as a set (empty: no entry).
EntriesOf(key) == {i \in 1..Len(cache) : cache[i].key = key}

\* C1: under CacheSpec, the cache never holds more than MAX_CACHE_SIZE
\* entries, whatever successful queries on distinct keys were made.
C1_CacheAtMostMaxSize == Len(cache) <= MAX_CACHE_SIZE

\* C2: under UnitSpec, when the re-fetch of toggleUnit is over and has
\* failed, the unit in memory and in storage is the one before the toggle
\* and error holds the typed error of the failure.
C2_ToggleFailureRestoresUnit ==
    (lastOp.op = "settled" /\ lastOp.origin = "toggle"
        /\ (lastOp.cw = "failed" \/ lastOp.fc = "failed"))
    => /\ selectedUnit = lastOp.prevUnit
       /\ loadStoredUnits(storedUnits) = lastOp.prevUnit
       /\ error = handleError(lastOp.last)

\* C3: under CacheSpec, a run of the clean-up timer leaves no entry in the
\* cache whose age has reached CACHE_DURATION.
C3_TimerRemovesExpired ==
    lastOp.op = "timer"
    => \A i \in 1..Len(cache) : now - cache[i].timestamp < CACHE_DURATION

\* C4: under CacheSpec, a call of fetchWeatherData shows the key's entry
\* without going to the network if and only if the key has an entry of age
\* below CACHE_DURATION, however recently the entry was accessed; being
\* served sets the entry's lastAccessed and leaves its timestamp and data.
C4_Served ==
    /\ ~lastOp.call.network
    /\ lastOp.call.entryAge >= 0
    /\ weatherData = lastOp.call.entryData

C4_ServedIffWithinDuration ==
    (lastOp.op = "query" /\ lastOp.invoked)
    => /\ C4_Served <=> (lastOp.call.entryAge >= 0
                         /\ lastOp.call.entryAge < CACHE_DURATION)
       /\ ~C4_Served => lastOp.call.network
       /\ C4_Served =>
            \A i \in EntriesOf(lastOp.call.key) :
                /\ cache[i].timestamp = now - lastOp.call.entryAge
                /\ cache[i].lastAccessed = now
                /\ cache[i].data = lastOp.call.entryData

\* C4 witness: a query finds an entry whose age has reached CACHE_DURATION
\* and that was accessed less than CACHE_DURATION ago, and goes to the network.
C4_StaleButRecentlyHit ==
    /\ lastOp.op = "query" /\ lastOp.invoked
    /\ lastOp.call.entryAge >= CACHE_DURATION
    /\ lastOp.call.entryIdle >= 0
    /\ lastOp.call.entryIdle < CACHE_DURATION
    /\ lastOp.call.network

\* C5: under CacheSpec, a query made less than the throttle window after
\* the query the throttle last let through is dropped: fetchWeatherData is
\* not invoked, no request is issued, nothing is queued.
C5_QueryInWindowDropped ==
    [][(lastOp'.op = "query" /\ opsLeft' # opsLeft
            /\ now - lastExec < THROTTLE_MS)
        => /\ ~lastOp'.invoked
           /\ UNCHANGED <<tasks, cache, weatherData, loading, error, lastExec>>]_vars

\* C5 witness: a query for the key of the call still on the network was
\* dropped within the window.
C5_SecondQueryDropped ==
    /\ lastOp.op = "query" /\ ~lastOp.invoked
    /\ lastOp.elapsed < THROTTLE_MS
    /\ \E i \in Slots : tasks[i] # NULL /\ tasks[i].cacheKey = lastOp.call.key
                        /\ tasks[i].cw.calls = 1 /\ tasks[i].fc.calls = 0

\* A suffix of hist failed with a server error each time.
AllServerErrors(hist) ==
    \A i \in 1..Len(hist) :
        hist[i].kind = "fail" /\ hist[i].isAxiosError /\ hist[i].hasResponse
            /\ hist[i].status >= 500

\* C6: under RetrySpec, fetchWithRetry(fn, retries) invokes fn at most
\* retries + 1 times, its remaining retries never go below 0, when every
\* attempt failed with a server error it throws the last failure after
\* exactly retries + 1 invocations, and it ends.
C6_CallsBounded ==
    /\ rt.req.calls <= rt.retries0 + 1
    /\ rt.req.retries >= 0
    /\ rt.req.retries = rt.retries0 - (rt.req.calls - 1)
    /\ (rt.req.st = "failed" /\ AllServerErrors(rt.hist))
       => /\ rt.req.calls = rt.retries0 + 1
          /\ Len(rt.hist) = rt.retries0 + 1
          /\ rt.req.res = rt.hist[Len(rt.hist)]

C6_RetryTerminates == []C6_CallsBounded /\ <>(rt.req.st \in {"ok", "failed"})

\* C6 witness: every attempt failed with a server error and retries ran out.
C6_RetriesExhausted ==
    /\ rt.retries0 = MAX_RETRIES
    /\ rt.req.st = "failed"
    /\ AllServerErrors(rt.hist)
    /\ rt.req.calls = MAX_RETRIES + 1

\* C7: under RetrySpec, fn is invoked again only after a failure with a
\* response of status >= 500, after one delay each; a failure with no
\* response or with another status is thrown unchanged at once, also after
\* earlier retries; the first successful attempt is returned.
C7_RetriesOnlyServerErrors ==
    LET n == Len(rt.hist)
        last == rt.hist[n]
        retryable == last.kind = "fail" /\ last.isAxiosError /\ last.hasResponse
                         /\ last.status >= 500
    IN  /\ rt.req.calls = (IF rt.req.st = "delay" THEN n ELSE
                           IF rt.req.st = "inflight" THEN n + 1 ELSE n)
        /\ \A i \in 1..(n - 1) : AllServerErrors(<<rt.hist[i]>>)
        /\ (n > 0 /\ rt.req.st # "inflight") =>
              /\ (last.kind = "ok") => (rt.req.st = "ok" /\ rt.req.res = last
                                        /\ rt.req.delays = n - 1)
              /\ (last.kind = "fail" /\ ~retryable)
                 => (rt.req.st = "failed" /\ rt.req.res = last
                     /\ rt.req.delays = n - 1)
              /\ (rt.req.st = "delay") => retryable
        /\ rt.req.st = "inflight" => rt.req.delays = n

\* C7 witness: a client error after two retried server errors was thrown.
C7_ClientErrorAfterRetries ==
    /\ Len(rt.hist) = 3
    /\ rt.req.st = "failed"
    /\ rt.req.res.status = 404
    /\ rt.req.delays = 2

\* C8: under CacheSpec, when a call of fetchWeatherData is over, it has
\* failed if and only if its /weather chain or its forecast chain failed;
\* otherwise the snapshot is stored and shown, with airQuality present if
\* and only if the air-pollution chain succeeded.
C8_Stored ==
    \E i \in EntriesOf(lastOp.key) :
        /\ cache[i].timestamp = now
        /\ cache[i].data = weatherData

C8_AirQualityFailureAbsorbed ==
    lastOp.op = "settled"
    => /\ (lastOp.cw = "failed" \/ lastOp.fc = "failed")
            <=> (error # NULL /\ ~C8_Stored)
       /\ (lastOp.cw = "ok" /\ lastOp.fc = "ok")
            <=> (error = NULL /\ C8_Stored)
       /\ (error = NULL /\ C8_Stored)
            => (weatherData.airQuality <=> lastOp.aq = "ok")

\* C8 witness: the air-pollution chain failed and the snapshot was stored
\* without airQuality.
C8_SnapshotWithoutAirQuality ==
    /\ lastOp.op = "settled"
    /\ lastOp.aq = "failed"
    /\ error = NULL
    /\ C8_Stored
    /\ ~weatherData.airQuality

\* C9: under HandleErrorSpec, handleError gives every thrown value one
\* type: NETWORK without a response, API_LIMIT for 429, LOCATION for 404,
\* UNKNOWN for everything else, and a message that is not empty.
C9_ClassifiedWithMessage ==
    lastOp.op = "handleError"
    => /\ error.type =
            (IF thrown.isAxiosError /\ ~thrown.hasResponse THEN "NETWORK"
             ELSE IF thrown.isAxiosError /\ thrown.status = 429 THEN "API_LIMIT"
             ELSE IF thrown.isAxiosError /\ thrown.status = 404 THEN "LOCATION"
             ELSE "UNKNOWN")
       /\ error.message # ""

\* C10: under FavoritesSpec, no two favourites share a name, from the
\* state loaded from storage on; addToFavorites leaves the list as it was
\* when the city shown is a favourite already or nothing is shown.
C10_NoDuplicateFavorites ==
    /\ \A i, j \in 1..Len(favorites) :
           i # j => favorites[i].name # favorites[j].name
    /\ (lastOp.op = "addToFavorites"
            /\ (~lastOp.shown
                \/ \E i \in 1..Len(lastOp.before) :
                       lastOp.before[i].name = weatherData.city))
       => favorites = lastOp.before

\* C11: under UnitSpec, a toggleUnit whose storage write succeeds flips
\* the unit and empties the cache; with a snapshot shown its re-fetch goes
\* to the network for the snapshot's coordinates with the new unit, also
\* when the cache held a valid entry for them; with none shown it issues
\* no request.
C11_RefetchIssued ==
    \E i \in Slots :
        /\ tasks[i] # NULL
        /\ tasks[i].origin = "toggle"
        /\ tasks[i].params = [lat |-> weatherData.coord.lat,
                              lon |-> weatherData.coord.lon]
        /\ tasks[i].units = selectedUnit
        /\ tasks[i].cw.st = "inflight"
        /\ tasks[i].cw.calls = 1

C11_ToggleEffect ==
    /\ lastOp.hadData =>
          /\ selectedUnit = OtherUnit(lastOp.prevUnit)
          /\ cache = <<>>
          /\ lastOp.network
          /\ C11_RefetchIssued
    /\ ~lastOp.hadData => ~lastOp.network

C12_Written ==
    {j \in 1..Len(cache') :
        \A i \in 1..Len(cache) :
            \/ cache[i].key # cache'[j].key
            \/ cache[i].timestamp # cache'[j].timestamp
            \/ cache[i].data # cache'[j].data}

\* The key of the query of the step has a valid entry before the step.
C12_ValidHit ==
    LET i == CacheIndex(cache, lastOp'.call.key)
    IN  i # 0 /\ isCacheValid(cache[i], now)

\* C12: under FetchSpec, a call of fetchWeatherData issues a request only
\* when its lookup found no valid entry; on a valid entry it issues none
\* and sets lastAccessed in the same step; an entry is written only by the
\* step that ends a call whose /weather and /forecast chains succeeded,
\* whose air-pollution chain is over and whose data was processed.
C12_LookupThenNetworkThenWrite ==
    [][/\ (lastOp'.op = "query" /\ lastOp'.invoked /\ tasks' # tasks)
            => ~C12_ValidHit
       /\ (lastOp'.op = "query" /\ lastOp'.invoked /\ C12_ValidHit)
            => /\ tasks' = tasks
               /\ loading' = loading
               /\ cache'[CacheIndex(cache, lastOp'.call.key)].lastAccessed = now
               /\ C12_Written = {}
       /\ C12_Written # {}
            => /\ lastOp'.op = "settled"
               /\ lastOp'.cw = "ok" /\ lastOp'.fc = "ok"
               /\ lastOp'.aq \in {"ok", "failed"}
               /\ lastOp'.normalized
               /\ \A j \in C12_Written : cache'[j].key = lastOp'.key
      ]_vars

\* C12 witness: every response of a call arrived, processWeatherData threw
\* on the forecast, and no entry was written for the key.
C12_NothingWrittenWhenProcessingThrows ==
    /\ lastOp.op = "settled"
    /\ lastOp.cw = "ok" /\ lastOp.fc = "ok" /\ lastOp.aq \in {"ok", "failed"}
    /\ ~lastOp.normalized
    /\ EntriesOf(lastOp.key) = {}
    /\ error = handleError(TypeErrorNoList)

\* The call that just ended wrote its snapshot under its key and shows it.
C13_NewSnapshotShown ==
    /\ weatherData # NULL
    /\ weatherData.units = lastOp.units
    /\ \E i \in EntriesOf(lastOp.key) :
           /\ cache[i].data = weatherData
           /\ cache[i].timestamp = now
           /\ cache[i].lastAccessed = now

C13_Succeeded ==
    lastOp.cw = "ok" /\ lastOp.fc = "ok" /\ lastOp.normalized

C13_TypedErrors ==
    {handleError(o) : o \in ApiOutcomes \cup {TypeErrorNoList}}

C13_CompletedShape ==
    lastOp.op = "settled"
    => /\ ~loading
       /\ C13_Succeeded => C13_NewSnapshotShown
       /\ ~C13_Succeeded =>
             error = handleError(IF lastOp.cw = "ok" /\ lastOp.fc = "ok"
                                 THEN TypeErrorNoList ELSE lastOp.last)
       /\ error = NULL => C13_NewSnapshotShown
       /\ error # NULL =>
             (error \in C13_TypedErrors
              /\ error.type \in {"NETWORK", "API_LIMIT", "LOCATION", "UNKNOWN"})

\* C13: under FetchLiveSpec, where every request settles and every delay ends,
\* every call of fetchWeatherData that went to the network is over at some
\* time; when it is over loading is false and either its snapshot is
\* shown and stored, or error holds the typed error of its failure; error
\* is null only with the snapshot shown.
C13_Waiting == \E i \in Slots : tasks[i] # NULL

C13_MissCompletes ==
    /\ []C13_CompletedShape
    /\ C13_Waiting ~> ~C13_Waiting

\* C13 witness: a call that waited through a retry delay is over and has
\* failed with a typed error.
C13_FailedAfterRetry ==
    /\ lastOp.op = "settled"
    /\ lastOp.cw = "failed"
    /\ lastOp.last = NetworkError
    /\ serverErrors > 0
    /\ error = handleError(NetworkError)
    /\ ~loading

\* C14: under FavoritesSpec, after addToFavorites or removeFromFavorites
\* the list a new store would load from storage is the list in memory, in
\* the same order, and removeFromFavorites(name) has removed the favourites
\* of that name and no other.
C14_PersistedEqualsMemory ==
    /\ lastOp.op \in {"addToFavorites", "removeFromFavorites"}
       => loadStoredFavorites(storedFavorites) = favorites
    /\ lastOp.op = "removeFromFavorites"
       => favorites = SelectSeq(lastOp.before, LAMBDA f : f.name # lastOp.name)

\* C15: under PreferenceSpec, in every state the unit a new store would
\* load from storage is selectedUnit, and with no unit stored
\* selectedUnit is metric.
C15_StoredUnitAgrees ==
    /\ selectedUnit \in Units
    /\ loadStoredUnits(storedUnits) = selectedUnit
    /\ storedUnits = "<null>" => selectedUnit = "metric"

\* C15 witness: the re-fetch of a toggle to imperial is over and imperial
\* is stored.
C15_ImperialStoredAfterToggle ==
    /\ lastOp.op = "settled"
    /\ lastOp.origin = "toggle"
    /\ lastOp.prevUnit = "metric"
    /\ selectedUnit = "imperial"
    /\ storedUnits = "imperial"
    /\ \A i \in Slots : tasks[i] = NULL

\* C16: under LoadSpec, a store created from storage has no favourites
\* when the stored value is absent, unparsable, no array, or an array
\* with an item that lacks a string name or a numeric lat or lon, and has
\* every stored favourite otherwise; its unit is the stored one when that
\* is metric or imperial and metric otherwise; no error is recorded.
C16_LoadedOrDefault ==
    lastOp.op \in {"init", "reload"}
    => /\ storedFavorites \in
              MalformedFavoritesValues \cup {StoredNull, StoredCorrupt}
          => favorites = <<>>
       /\ storedFavorites \in StoredFavoritesValues \ {StoredNull, StoredCorrupt}
          => storedFavorites = JSONstringify(favorites)
       /\ selectedUnit = (IF storedUnits \in Units THEN storedUnits ELSE "metric")
       /\ error = NULL

\* C16 witness: storage holds a well-formed favourite followed by one
\* without lon, and a unit that is neither metric nor imperial; the store
\* loaded from it has no favourite and metric.
C16_NoPartialList ==
    /\ lastOp.op = "reload"
    /\ storedFavorites =
           [kind |-> "array",
            items |-> <<ToJSON(Favorite("Paris")),
                        JObject(JString("Oslo"), JNumber(59), JUndefined)>>]
    /\ storedUnits = "celsius"
    /\ favorites = <<>>
    /\ selectedUnit = "metric"

\* The store is initialized: initialize() was called and no cleanup() since.
C17_Initialized == cacheCleanupInterval # NoInterval

C17_OneTimer ==
    /\ Cardinality(timers) <= 1
    /\ C17_Initialized <=> timers # {}
    /\ \A tm \in timers : tm.id = cacheCleanupInterval

\* C17: under TimerSpec, for every sequence of initialize() and cleanup()
\* at most one timer is active, it is the one the store holds the id of,
\* and the timer's callback runs only while the store is initialized.
C17_TimerOnlyWhileInitialized ==
    /\ []C17_OneTimer
    /\ [][lastOp'.op = "timer"
            => (C17_Initialized /\ cacheCleanupInterval' = cacheCleanupInterval)]_vars
    /\ [][(lastOp'.op = "cleanup") => (timers' = {} /\ ~C17_Initialized')]_vars

\* C17 witness: after initialize(), cleanup() and initialize() again (and a
\* fourth call), the one timer has run.
C17_TimerRunsAfterReinitialize ==
    /\ lastOp.op = "timer"
    /\ opsLeft <= MaxTimerOps - 3
    /\ Cardinality(timers) = 1
    /\ C17_Initialized

\* C18: under CacheSpec, a call of fetchWeatherData for a key whose entry
\* was written less than CACHE_DURATION ago shows the snapshot that was
\* written, issues no request, sets the entry's lastAccessed to the time
\* of the call and leaves its timestamp, data and compressed text as written.
C18_ReadReturnsWritten ==
    (lastOp.op = "query" /\ lastOp.invoked
        /\ lastOp.call.entryAge >= 0 /\ lastOp.call.entryAge < CACHE_DURATION)
    => /\ ~lastOp.call.network
       /\ \A i \in Slots : tasks[i] = NULL \/ tasks[i].cacheKey # lastOp.call.key
       /\ error = NULL
       /\ Cardinality(EntriesOf(lastOp.call.key)) = 1
       /\ \A i \in EntriesOf(lastOp.call.key) :
             /\ compress(weatherData) = cache[i].compressed
             /\ cache[i].data = weatherData
             /\ cache[i].data = lastOp.call.entryData
             /\ cache[i].timestamp = now - lastOp.call.entryAge
             /\ cache[i].lastAccessed = now
       /\ weatherData.city = PlaceOf(lastOp.params)

\* C18 witness: the first read of an entry written some time ago.
C18_ReadAfterWrite ==
    /\ lastOp.op = "query" /\ lastOp.invoked
    /\ lastOp.call.entryAge > 0
    /\ lastOp.call.entryAge < CACHE_DURATION
    /\ lastOp.call.entryIdle = lastOp.call.entryAge
    /\ \E i \in EntriesOf(lastOp.call.key) :
           /\ cache[i].lastAccessed = now
           /\ cache[i].timestamp < now
           /\ compress(weatherData) = cache[i].compressed

\* C19: under CacheSpec, with a clock that never goes back, every entry
\* of the cache was last accessed at or after the time it was created,
\* and neither time is in the future.
C19_AccessedNotBeforeCreated ==
    \A i \in 1..Len(cache) :
        /\ cache[i].lastAccessed >= cache[i].timestamp
        /\ cache[i].lastAccessed <= now
        /\ cache[i].timestamp >= StartTime

\* C19 witness: an entry that was read after the time it was written, next
\* to an entry never read.
C19_EntryReadLater ==
    \E i, j \in 1..Len(cache) :
        /\ cache[i].lastAccessed > cache[i].timestamp
        /\ cache[j].lastAccessed = cache[j].timestamp
        /\ i # j

\* C20: under ExpirySpec, clearExpiredCache removes the entries whose age
\* has reached CACHE_DURATION and no other: each of them is gone, each
\* younger entry is still there as it was and in the same order, whatever
\* the time of its last access.
C20_Expired(e) == now - e.timestamp >= CACHE_DURATION

C20_RemovesExactlyExpired ==
    lastOp.op = "clearExpiredCache"
    => /\ \A i \in 1..Len(lastOp.before) :
             IF C20_Expired(lastOp.before[i])
             THEN EntriesOf(lastOp.before[i].key) = {}
             ELSE \E j \in 1..Len(cache) : cache[j] = lastOp.before[i]
       /\ \A j \in 1..Len(cache) :
             \E i \in 1..Len(lastOp.before) : cache[j] = lastOp.before[i]
       /\ cache = SelectSeq(lastOp.before, LAMBDA e : ~C20_Expired(e))

\* C20 witness: an entry as old as CACHE_DURATION that was accessed less
\* than CACHE_DURATION ago was removed.
C20_RecentlyReadEntryRemoved ==
    /\ lastOp.op = "clearExpiredCache"
    /\ \E i \in 1..Len(lastOp.before) :
           /\ C20_Expired(lastOp.before[i])
           /\ now - lastOp.before[i].lastAccessed < CACHE_DURATION
           /\ EntriesOf(lastOp.before[i].key) = {}

(***************************************************************************)
(* C21: a recorded error is left as it is by every operation that is no    *)
(* fetch and no unit toggle: addToFavorites, removeFromFavorites,          *)
(* clearCache, clearExpiredCache, the timer's cleanCache and a query the   *)
(* throttle drops all leave error unchanged.                               *)
(***************************************************************************)
C21_ErrorKeptByOtherOperations ==
    [][(\/ lastOp'.op \in {"addToFavorites", "removeFromFavorites",
                           "clearCache", "clearExpiredCache", "timer"}
        \/ (lastOp'.op = "query" /\ ~lastOp'.invoked))
       => error' = error]_vars

C21_ErrorSurvivesDroppedQuery ==
    /\ lastOp.op = "query" /\ ~lastOp.invoked
    /\ error # NULL

(***************************************************************************)
(* C23: clearCache leaves the cache empty whatever it held, also when it   *)
(* is called again on the empty cache, and changes nothing else:           *)
(* weatherData, favorites, selectedUnit, loading and error stay.           *)
(***************************************************************************)
C23_ClearCacheEmptiesOnly ==
    [][lastOp'.op = "clearCache"
       => /\ cache' = <<>>
          /\ weatherData' = weatherData
          /\ favorites' = favorites
          /\ selectedUnit' = selectedUnit
          /\ loading' = loading
          /\ error' = error
          /\ thrown' = thrown]_vars

C23_ClearedTwiceInARow ==
    /\ lastOp.op = "clearCache" /\ lastOp.previous = "clearCache"
    /\ lastOp.before = <<>> /\ cache = <<>>
    /\ weatherData # NULL

(***************************************************************************)
(* C22: a run of the interval timer only removes cache entries: every      *)
(* entry it leaves is an entry that was there, unchanged, and weatherData, *)
(* loading, error, favorites, selectedUnit and the calls in flight are as  *)
(* before, so a fetch in flight settles as it would have.                  *)
(***************************************************************************)
C22_TimerOnlyRemoves ==
    [][lastOp'.op = "timer"
       => /\ Len(cache') <= Len(cache)
          /\ \A i \in 1..Len(cache') : \E j \in 1..Len(cache) : cache'[i] = cache[j]
          /\ weatherData' = weatherData
          /\ loading' = loading
          /\ error' = error
          /\ favorites' = favorites
          /\ selectedUnit' = selectedUnit
          /\ tasks' = tasks]_vars

C22_EntryRemovedDuringFetch ==
    /\ lastOp.op = "timer"
    /\ Len(cache) < Len(lastOp.before)
    /\ \E i \in Slots : tasks[i] # NULL
    /\ loading

(***************************************************************************)
(* C30: cleanCache on a cache of more than MAX_CACHE_SIZE entries leaves   *)
(* exactly MAX_CACHE_SIZE, and no removed entry was read later than an     *)
(* entry that stays; on a cache of at most MAX_CACHE_SIZE entries it       *)
(* removes nothing.                                                        *)
(***************************************************************************)
C30_Kept(c, e) == \E i \in 1..Len(c) : c[i] = e

C30_EvictsLeastRecentlyRead ==
    [][lastOp'.op = "timer"
       => IF Len(cache) > MAX_CACHE_SIZE
          THEN /\ Len(cache') = MAX_CACHE_SIZE
               /\ \A i, j \in 1..Len(cache) :
                      (~C30_Kept(cache', cache[i]) /\ C30_Kept(cache', cache[j]))
                          => cache[i].lastAccessed <= cache[j].lastAccessed
          ELSE cache' = cache]_vars

C30_TwoEvicted ==
    /\ lastOp.op = "timer"
    /\ Len(lastOp.before) > MAX_CACHE_SIZE + 1
    /\ Len(cache) = MAX_CACHE_SIZE
    /\ \E i, j \in 1..Len(lastOp.before) :
           /\ ~C30_Kept(cache, lastOp.before[i])
           /\ C30_Kept(cache, lastOp.before[j])
           /\ lastOp.before[i].timestamp > lastOp.before[j].timestamp

(***************************************************************************)
(* C24: a query by name or by coordinates that the throttle admits is      *)
(* never refused for lack of configuration: without an environment         *)
(* variable too it is answered from a valid cache entry or goes to the     *)
(* network, and no error is recorded by the call itself.                   *)
(***************************************************************************)
C24_QueryNeverRefused ==
    (lastOp.op = "query" /\ lastOp.invoked)
        => /\ error = NULL
           /\ \/ lastOp.call.network
              \/ (lastOp.call.entryAge >= 0 /\ lastOp.call.entryAge < CACHE_DURATION)

(***************************************************************************)
(* C25: at most one suggestion request is live at any time, since a new    *)
(* lookup aborts every earlier one still in flight, and a lookup that has  *)
(* been superseded by a later one never assigns locationSuggestions.       *)
(***************************************************************************)
C25_LiveLookups == {i \in 1..Len(lookups) : lookups[i].st = "live"}

C25_OnlyLatestLookupCounts ==
    /\ Cardinality(C25_LiveLookups) <= 1
    /\ (lastOp.op = "lookupSettled" /\ lastOp.lookup < lastOp.latest)
           => ~lastOp.assigned

(***************************************************************************)
(* C26: the daily forecast has at most FORECAST_DAYS (5) entries in        *)
(* ascending order of date, one for each day the upstream list covers from *)
(* the current local day on, beginning with the first of them: exactly     *)
(* FORECAST_DAYS when at least that many days are covered, fewer and no    *)
(* padding otherwise; the hourly forecast has at most 24 entries (three    *)
(* times the 8 items sliced) and no more than the upstream list has.       *)
(***************************************************************************)
C26_LocalDay == (pw.clock + pw.tz) \div DAY

C26_DaysCovered ==
    {d \in {toISODate(pw.list[i].dt) : i \in 1..Len(pw.list)} : d >= C26_LocalDay}

C26_ForecastLengths ==
    pw.st = "returned" =>
        LET f == pw.out.forecast
            h == pw.out.hourlyForecast
        IN  /\ Len(f) <= FORECAST_DAYS
            /\ \A i, j \in 1..Len(f) : i < j => f[i].date < f[j].date
            /\ f # <<>> => f[1].date = SetMin(C26_DaysCovered)
            /\ Cardinality(C26_DaysCovered) >= FORECAST_DAYS => Len(f) = FORECAST_DAYS
            /\ Cardinality(C26_DaysCovered) < FORECAST_DAYS
                   => Len(f) = Cardinality(C26_DaysCovered)
            /\ Len(h) <= 3 * HOURLY_ITEMS
            /\ Len(h) <= Len(pw.list)

(***************************************************************************)
(* C27: every daily entry has tempMin = round(min), tempMax = round(max)   *)
(* and temp = round((max + min) / 2) of the unrounded temperatures of the  *)
(* items of its day, hence tempMin <= temp <= tempMax; the entries are in  *)
(* the order in which their days first appear in the upstream list.        *)
(***************************************************************************)
C27_Items(date) == {i \in 1..Len(pw.list) : pw.list[i].dt \div DAY = date}

C27_Nearest(n, d) ==
    CHOOSE k \in (0 - 40)..40 : 2 * d * k <= 2 * n + d /\ 2 * n + d < 2 * d * (k + 1)

C27_DailyTemperatures ==
    pw.st = "returned" =>
        LET f == pw.out.forecast
        IN  /\ \A i \in 1..Len(f) :
                   LET temps == {pw.list[k].temp : k \in C27_Items(f[i].date)}
                       max == CHOOSE x \in temps : \A y \in temps : x >= y
                       min == CHOOSE x \in temps : \A y \in temps : x <= y
                   IN  /\ temps # {}
                       /\ f[i].temp = C27_Nearest(max + min, 8)
                       /\ f[i].tempMin = C27_Nearest(min, 4)
                       /\ f[i].tempMax = C27_Nearest(max, 4)
                       /\ f[i].tempMin <= f[i].temp
                       /\ f[i].temp <= f[i].tempMax
            /\ \A i, j \in 1..Len(f) :
                   i < j => \A a \in C27_Items(f[i].date), b \in C27_Items(f[j].date) : a < b

C27_MidpointNotMeanOfRounded ==
    /\ pw.st = "returned"
    /\ Len(pw.out.forecast) = FORECAST_DAYS
    /\ \E i \in 1..Len(pw.out.forecast) :
           LET e == pw.out.forecast[i]
           IN  /\ e.tempMin < e.temp /\ e.temp < e.tempMax
               /\ 2 * e.temp # e.tempMin + e.tempMax
    /\ \E i \in 1..Len(pw.out.forecast) : pw.out.forecast[i].tempMin < 0

(***************************************************************************)
(* C28: when the first daily entry is the entry of today, the current      *)
(* block's tempMin and tempMax are that entry's tempMin and tempMax.       *)
(***************************************************************************)
C28_CurrentRangeIsTodaysEntry ==
    (/\ pw.st = "returned"
     /\ pw.out.forecast # <<>>
     /\ pw.out.forecast[1].date = (pw.clock + pw.tz) \div DAY)
        => /\ pw.out.current.tempMin = pw.out.forecast[1].tempMin
           /\ pw.out.current.tempMax = pw.out.forecast[1].tempMax

(***************************************************************************)
(* C29: the display name of a snapshot is never empty: when the upstream   *)
(* gives no name for the coordinates it is the coordinate pair with two    *)
(* decimals, as in "51.50, -0.12".                                         *)
(***************************************************************************)
C29_toFixed2(n) == ToString(n) \o ".00"

C29_DisplayNameNeverEmpty ==
    pw.st = "returned" =>
        /\ pw.out.city # ""
        /\ pw.currentWeather.name = ""
               => pw.out.city = C29_toFixed2(pw.out.coord.lat) \o ", "
                                    \o C29_toFixed2(pw.out.coord.lon)

(***************************************************************************)
(* C31: in every state every cache entry holds a snapshot that was         *)
(* requested with the unit selected now, whatever the interleaving of      *)
(* toggleUnit with the calls in flight: a call started before a toggle     *)
(* never writes its snapshot after the toggle emptied the cache.           *)
(***************************************************************************)
C31_CacheInSelectedUnit ==
    \A i \in 1..Len(cache) : cache[i].data.units = selectedUnit

(***************************************************************************)
(* C32: loading is true whenever a call of fetchWeatherData is on the      *)
(* network or in a retry delay; a call that is over, or a toggle, does not *)
(* clear it while another call is still running.                           *)
(***************************************************************************)
C32_LoadingWhileInFlight ==
    (\E i \in Slots : tasks[i] # NULL) => loading

(***************************************************************************)
(* C33: when a query has been answered successfully by the network after   *)
(* a later query for another location was admitted and answered            *)
(* successfully meanwhile, and no call is running any more, weatherData is *)
(* the snapshot of the later query, the one issued last.                   *)
(***************************************************************************)
C33_LastIssuedQueryShown ==
    (/\ lastOp.op = "settled" /\ lastOp.origin = "query"
     /\ lastOp.cw = "ok" /\ lastOp.fc = "ok"
     /\ lastOp.admitted < lastExec
     /\ \A i \in Slots : tasks[i] = NULL)
        => \A j \in 1..Len(cache) :
               (/\ cache[j].key # lastOp.key
                /\ cache[j].timestamp >= lastExec
                /\ cache[j].data.city # PlaceOf(
                       IF lastOp.key \in Places THEN [q |-> lastOp.key]
                       ELSE CHOOSE c \in CoordParams : getCacheKey(c) = lastOp.key))
                   => weatherData = cache[j].data

(***************************************************************************)
(* C34: every step that changes selectedUnit empties the cache, and no     *)
(* admitted query is answered from a cache entry whose snapshot was        *)
(* fetched in another unit than the one selected, also after               *)
(* clearStoredData has reset the unit to metric.                           *)
(***************************************************************************)
C34_UnitChangeEmptiesCache ==
    [][/\ selectedUnit' # selectedUnit => cache' = <<>>
       /\ (/\ lastOp'.op = "query" /\ opsLeft' # opsLeft
           /\ lastOp'.invoked /\ ~lastOp'.call.network
           /\ lastOp'.call.entryAge >= 0)
              => lastOp'.call.entryData.units = selectedUnit']_vars

(***************************************************************************)
(* C35: a fetch that fails leaves the cache and weatherData as they were:  *)
(* the step that starts it, the steps of its responses and retries and the *)
(* step in which it fails change neither, so the snapshot shown stays and  *)
(* a stale entry of its key stays as it is; the failing step sets error    *)
(* and resets loading.                                                     *)
(***************************************************************************)
C35_Failed ==
    lastOp.op = "settled" /\ ~(lastOp.cw = "ok" /\ lastOp.fc = "ok" /\ lastOp.normalized)

C35_FailedFetchKeepsData ==
    [][/\ (\/ lastOp'.op \in {"response", "retry"}
           \/ (lastOp'.op = "query" /\ lastOp'.call.network)
           \/ C35_Failed')
          => /\ cache' = cache
             /\ weatherData' = weatherData
             /\ favorites' = favorites
             /\ selectedUnit' = selectedUnit
             /\ storedFavorites' = storedFavorites
             /\ storedUnits' = storedUnits
       /\ C35_Failed' => (error' # NULL /\ ~loading')]_vars

C35_StaleEntryStaysAfterFailure ==
    /\ C35_Failed
    /\ weatherData # NULL
    /\ error # NULL
    /\ \E i \in 1..Len(cache) :
           /\ cache[i].key = lastOp.key
           /\ ~isCacheValid(cache[i], now)
           /\ cache[i].data = weatherData

(***************************************************************************)
(* C36: a query that arrives inside the throttle window leaves             *)
(* weatherData, loading, error and the cache unchanged whatever its key,   *)
(* also when its key has a valid entry for another location than the one   *)
(* shown: the snapshot shown is not switched to that entry.                *)
(***************************************************************************)
C36_QueryInWindowChangesNothing ==
    [][(lastOp'.op = "query" /\ opsLeft' # opsLeft
            /\ now - lastExec < THROTTLE_MS)
        => /\ weatherData' = weatherData
           /\ loading' = loading
           /\ error' = error
           /\ cache' = cache
           /\ \A i \in 1..Len(cache) :
                  (cache[i].key = lastOp'.call.key /\ cache[i].data # weatherData)
                      => /\ weatherData' # cache[i].data
                         /\ cache'[i].lastAccessed = cache[i].lastAccessed]_vars

C36_ValidEntryOfOtherPlaceNotShown ==
    /\ lastOp.op = "query" /\ ~lastOp.invoked
    /\ lastOp.elapsed < THROTTLE_MS
    /\ lastOp.call.entryAge >= 0 /\ lastOp.call.entryAge < CACHE_DURATION
    /\ weatherData # NULL
    /\ lastOp.call.entryData.city # weatherData.city

(***************************************************************************)
(* C37: getCacheKey gives two different queries two different keys: the    *)
(* text query "a,b" and the coordinate query (a, b) do not share a key,    *)
(* and the empty text query shares its key with no other query.            *)
(***************************************************************************)
C37_DifferentQueriesDifferentKeys ==
    (ck.st = "returned" /\ ck.first # ck.second) => ck.keys[1] # ck.keys[2]

(***************************************************************************)
(* C38: a toggleUnit whose storage write of the new preference throws      *)
(* returns with selectedUnit as it was before the call, the cache          *)
(* untouched and error holding the failure: the error path never ends      *)
(* with the unit flipped.                                                  *)
(***************************************************************************)
C38_FailedToggleKeepsUnit ==
    [][(lastOp'.op = "toggleUnit" /\ opsLeft' # opsLeft /\ lastOp'.setThrows)
       => /\ selectedUnit' = selectedUnit
          /\ cache' = cache
          /\ error' = handleError(StorageException)
          /\ loading' = FALSE]_vars

\* What the catch block of toggleUnit does: the cache stays, error is set,
\* and the unit is set to the opposite of the unit the call started with
\* unless the second storage write throws too.
C38_FailedToggleKeepsCacheSetsError ==
    [][(lastOp'.op = "toggleUnit" /\ opsLeft' # opsLeft /\ lastOp'.setThrows)
       => /\ cache' = cache
          /\ error' = handleError(StorageException)
          /\ loading' = FALSE
          /\ (~lastOp'.restoreThrows
                => selectedUnit' = OtherUnit(selectedUnit))]_vars

(***************************************************************************)
(* C39: the eviction by cleanCache never removes an entry that is still    *)
(* within its TTL while an entry whose TTL has elapsed remains in the      *)
(* cache: a stale entry is kept only if no valid entry was evicted.        *)
(***************************************************************************)
C39_NoValidEvictedWhileStaleKept ==
    lastOp.op = "timer"
        => ~ \E i, j \in 1..Len(lastOp.before) :
                 /\ ~C30_Kept(cache, lastOp.before[i])
                 /\ isCacheValid(lastOp.before[i], now)
                 /\ C30_Kept(cache, lastOp.before[j])
                 /\ ~isCacheValid(lastOp.before[j], now)

====
